---------------------------- MODULE Spec2Model ----------------------------
(***************************************************************************)
(* A model of FormScraper: the field classifier (field_detector.py), the   *)
(* page pipeline and the crawl orchestrator (form_scraper.py,              *)
(* run_scraper.py), with the parts of form_analyzer.py they call.          *)
(*                                                                         *)
(* Text is modelled by TLA+ strings, which are sequences of characters:    *)
(* Len, SubSeq and \o act on them as Python's len, slicing and +.          *)
(*                                                                         *)
(* Fault model.  The browser collaborator may fail on any navigation       *)
(* (timeout, invalid session, any other exception) and on any element      *)
(* query (stale element); urlparse raises ValueError on a malformed        *)
(* network location; the process may be killed or interrupted by the user  *)
(* at any step.  Launching a browser (setup_browser) and reading or        *)
(* writing the checkpoint log and the result store are taken to succeed.   *)
(***************************************************************************)
EXTENDS Integers, Sequences, FiniteSets, TLC

(***************************************************************************)
(* Bounds of the model.                                                    *)
(***************************************************************************)
MaxHintWords == 2

(***************************************************************************)
(* Text helpers: Python's str operations as the code uses them.            *)
(***************************************************************************)
None == "None"

\* Python's `p in h` on strings.
Contains(h, p) ==
    \E pos \in 1..(Len(h) - Len(p) + 1) : SubSeq(h, pos, pos + Len(p) - 1) = p

CharAt(s, pos) == SubSeq(s, pos, pos)

UpperChars == "ABCDEFGHIJKLMNOPQRSTUVWXYZ"
LowerChars == "abcdefghijklmnopqrstuvwxyz"
DigitChars == "0123456789"

\* The characters of a string, as a set.
CharsOf(s) == {CharAt(s, pos) : pos \in 1..Len(s)}

UpperSet == CharsOf(UpperChars)

LowerChar(c) ==
    IF c \in UpperSet
    THEN CharAt(LowerChars, CHOOSE pos \in 1..Len(UpperChars) : CharAt(UpperChars, pos) = c)
    ELSE c

RECURSIVE LowerEach(_)
LowerEach(s) ==
    IF Len(s) = 0 THEN "" ELSE LowerChar(CharAt(s, 1)) \o LowerEach(SubSeq(s, 2, Len(s)))

\* str.lower()
Lower(s) == IF \A pos \in 1..Len(s) : CharAt(s, pos) \notin UpperSet THEN s ELSE LowerEach(s)

\* any(term in s for term in terms), terms a tuple of strings
AnyIn(terms, s) == \E k \in 1..Len(terms) : Contains(s, terms[k])

WordChars == CharsOf(LowerChars \o UpperChars \o DigitChars \o "_")

\* A regular expression's \w on the ASCII text of the model.
IsWordChar(c) == c \in WordChars

\* A regular expression's \b between the characters pos and pos+1 of s.
WordBoundary(s, pos) ==
    LET before == pos >= 1 /\ pos <= Len(s) /\ IsWordChar(CharAt(s, pos))
        after  == pos + 1 >= 1 /\ pos + 1 <= Len(s) /\ IsWordChar(CharAt(s, pos + 1))
    IN  before # after

\* re.search(r'\b' + re.escape(p) + r'\b', s): p taken literally, between
\* two word boundaries.
WordSearch(p, s) ==
    \E pos \in 1..(Len(s) - Len(p) + 1) :
        /\ SubSeq(s, pos, pos + Len(p) - 1) = p
        /\ WordBoundary(s, pos - 1)
        /\ WordBoundary(s, pos + Len(p) - 1)

(***************************************************************************)
(* FieldDetector: the canonical fields and the pattern tables.             *)
(***************************************************************************)
standard_fields == <<
    "Title", "FirstName", "LastName", "Email", "ConfirmEmail",
    "JobTitle", "Organization", "Phone", "Street", "City",
    "State", "Zipcode", "Country", "Privacy", "Submit">>

StandardFieldSet == {standard_fields[k] : k \in 1..Len(standard_fields)}

priority_fields == <<"FirstName", "LastName", "Email">>

\* The dict of field_detector.py in its insertion order, which is the order
\* `for std_field, patterns in self.field_patterns.items()` scans it in.
\* "Company Type" "corporation" is one literal in the source (no comma).
field_patterns == <<
    [field |-> "Title", patterns |-> <<
        "title", "prefix", "salutation", "honorific", "mr", "mrs", "ms", "dr", "prof",
        "suffix">>],
    [field |-> "FirstName", patterns |-> <<
        "first name", "firstname", "given name", "forename", "first", "fname", "givenname",
        "name.*first", "first.*name", "given", "name_first">>],
    [field |-> "LastName", patterns |-> <<
        "last name", "lastname", "surname", "family name", "last", "lname", "familyname",
        "name.*last", "last.*name", "family", "name_last", "sur name">>],
    [field |-> "Email", patterns |-> <<
        "email", "e-mail", "mail", "emailaddress", "e mail", "your email", "primary email",
        "contact email", "email.*address", "address.*email">>],
    [field |-> "ConfirmEmail", patterns |-> <<
        "confirm email", "repeat email", "verify email", "email confirm", "reenter email",
        "confirm.*email", "email.*confirm", "email.*again", "retype.*email",
        "verify.*email">>],
    [field |-> "JobTitle", patterns |-> <<
        "job title", "position", "role", "job role", "job position", "occupation", "title",
        "jobtitle", "job_title", "job-title", "job function", "profession", "work title">>],
    [field |-> "Organization", patterns |-> <<
        "company", "organization", "organisation", "employer", "business", "firm",
        "workplace", "company name", "employer name", "business name", "organization name",
        "institution", "Company Typecorporation", "agency", "department", "employer info">>],
    [field |-> "Phone", patterns |-> <<
        "phone", "telephone", "mobile", "cell", "contact number", "phonenumber", "tel",
        "phone.*number", "mobile.*number", "contact.*phone", "daytime phone",
        "evening phone", "cell.*number", "primary phone", "work phone", "home phone">>],
    [field |-> "Street", patterns |-> <<
        "street", "address", "address line", "street address", "road", "addressline1",
        "address1", "addr1", "address line 1", "street name", "house number", "building",
        "apartment", "street.*address", "address.*line.*1", "addr.*line1",
        "address.*street", "shipping address", "billing address", "mailing address",
        "delivery address", "residence", "location">>],
    [field |-> "City", patterns |-> <<
        "city", "town", "locality", "municipality", "urban area", "township", "city/town",
        "city name", "place", "village", "borough", "location.*city", "city.*location",
        "address.*city">>],
    [field |-> "State", patterns |-> <<
        "state", "province", "region", "county", "territory", "division", "district",
        "state/province", "administrative area", "location.*state", "state.*region",
        "region.*state", "area">>],
    [field |-> "Zipcode", patterns |-> <<
        "zip", "zipcode", "postal code", "post code", "zip code", "postalcode", "postcode",
        "postal", "pin code", "pin", "code postal", "zipcode.*postal", "postal.*zip",
        "zip.*code", "postal.*code", "area code">>],
    [field |-> "Country", patterns |-> <<
        "country", "nation", "land", "territory", "nationality", "national",
        "country name", "country/region", "region/country", "location.*country",
        "country.*location">>],
    [field |-> "Privacy", patterns |-> <<
        "privacy", "terms", "consent", "agree", "accept", "policy", "opt in", "gdpr",
        "marketing", "permission", "subscribe", "newsletter", "communications",
        "contact me", "contact you", "send me", "send you", "preference",
        "privacy.*policy", "terms.*conditions", "terms.*service", "cookie", "data policy",
        "personal data", "personal information", "data.*collect", "process.*data",
        "agreement", "updates", "notifications", "legal">>]
>>

\* self.field_patterns[name] / .get(name, [])
PatternsOf(name) ==
    IF \E k \in 1..Len(field_patterns) : field_patterns[k].field = name
    THEN field_patterns[CHOOSE k \in 1..Len(field_patterns) :
                            field_patterns[k].field = name].patterns
    ELSE <<>>

privacy_indicators == <<
    "i agree", "agree to", "accept", "consent",
    "subscribe", "sign up", "opt in", "permission",
    "can contact", "may contact", "receive">>

address_type_indicators == <<
    [field |-> "Street", patterns |-> <<"address line", "street address", "address1",
                                        "billing address", "shipping address">>],
    [field |-> "City", patterns |-> <<"city", "town">>],
    [field |-> "State", patterns |-> <<"state", "province", "region">>],
    [field |-> "Zipcode", patterns |-> <<"zip", "postal", "post code">>],
    [field |-> "Country", patterns |-> <<"country", "nation">>]>>

submit_terms == <<"submit", "send", "continue", "next", "go", "register">>

\* The table of lines 268-274 with no entry.
NoAddressPatterns == <<>>

address_patterns == <<
    [field |-> "Street", patterns |-> <<"addr", "address1", "line1", "street",
                                        "thoroughfare">>],
    [field |-> "City", patterns |-> <<"city", "town", "locality">>],
    [field |-> "State", patterns |-> <<"state", "province", "region", "territory">>],
    [field |-> "Zipcode", patterns |-> <<"zip", "postal", "postcode", "postalcode">>],
    [field |-> "Country", patterns |-> <<"country", "nation", "countries">>]>>

(***************************************************************************)
(* FieldDetector.map_to_standard_field.                                    *)
(***************************************************************************)
\* for field, patterns in table: for pattern in patterns:
\*     if pattern in name: return field
\* The first entry of `table`, in its order, with a pattern in `name`; None
\* when there is none.
FirstSubstringField(table, name) ==
    LET hits == {k \in 1..Len(table) : AnyIn(table[k].patterns, name)}
    IN  IF hits = {} THEN None
        ELSE table[CHOOSE k \in hits : \A idx \in hits : k <= idx].field

\* One pattern of the generic table against the name: the word-boundary
\* search or the plain substring test.
PatternMatches(pattern, name) ==
    WordSearch(pattern, name) \/ Contains(name, pattern)

\* The generic table scanned from its last entry to its first.
TableScanOrderReversed ==
    [k \in 1..Len(field_patterns) |-> Len(field_patterns) + 1 - k]

\* The order the generic table is scanned in.
TableScanOrder == [k \in 1..Len(field_patterns) |-> k]

\* for std_field, patterns in self.field_patterns.items(): ...
GenericTableField(name) ==
    LET order == TableScanOrder
        hits == {k \in 1..Len(order) :
                    \E n \in 1..Len(field_patterns[order[k]].patterns) :
                        PatternMatches(field_patterns[order[k]].patterns[n], name)}
    IN  IF hits = {} THEN None
        ELSE field_patterns[order[CHOOSE k \in hits : \A idx \in hits : k <= idx]].field

\* Rule 1 with the consent indicators alone.
PrivacyRuleIndicatorsOnly(name, element_type) ==
    /\ element_type \in {"checkbox", "radio"}
    /\ AnyIn(privacy_indicators, name)

\* Rule 1: checkbox/radio with a privacy pattern or a consent indicator.
PrivacyRule(name, element_type) ==
    /\ element_type \in {"checkbox", "radio"}
    /\ \/ AnyIn(PatternsOf("Privacy"), name)
       \/ AnyIn(privacy_indicators, name)

map_to_standard_field(guessed_name, element_type) ==
    IF guessed_name = "" THEN None
    ELSE
    LET name == Lower(guessed_name)
        addr == FirstSubstringField(address_type_indicators, name)
        generic == GenericTableField(name)
    IN  IF PrivacyRule(name, element_type) THEN "Privacy"
        ELSE IF addr # None THEN addr
        ELSE IF element_type = "email"
             THEN IF \/ Contains(name, "confirm")
                     \/ Contains(name, "verify")
                     \/ Contains(name, "repeat")
                  THEN "ConfirmEmail" ELSE "Email"
        ELSE IF element_type = "tel" THEN "Phone"
        ELSE IF element_type \in {"submit", "button"} /\ AnyIn(submit_terms, name)
             THEN "Submit"
        ELSE IF generic # None THEN generic
        ELSE FirstSubstringField(address_patterns, name)

(***************************************************************************)
(* Page elements.  An element is what the DOM collaborator answers about   *)
(* it: its tag and attributes, the texts around it, whether it is visible, *)
(* and from when on a query of it raises StaleElementReferenceException    *)
(* ("no": never; "pass1": from the type query of pass 1 on; "late": once   *)
(* pass 1 is over).                                                        *)
(***************************************************************************)
BaseElement == [
    eid |-> 0, path |-> "/html/body/input", tag |-> "input", type |-> "",
    name |-> "", id |-> "", placeholder |-> "", aria_label |-> "", title |-> "",
    data_label |-> "", class |-> "", role |-> "", text |-> "", value |-> "",
    required |-> "", aria_required |-> "",
    labels |-> <<>>, parent_tag |-> "div", parent_text |-> "",
    prev |-> <<>>, next |-> <<>>, address_container |-> FALSE, headers |-> <<>>,
    visible |-> TRUE, stale |-> "no"]

\* element.get_attribute("type") or element.tag_name
TypeOrTag(e) == IF e.type # "" THEN e.type ELSE e.tag

\* Whether a query of the element raises in the given phase of the page
\* pipeline ("locate", "pass1" or "late").
IsStale(e, phase) ==
    \/ e.stale = "pass1" /\ phase \in {"pass1", "late"}
    \/ e.stale = "late" /\ phase = "late"

\* str.strip() on the model's whitespace, the space.
RECURSIVE LStrip(_)
LStrip(s) == IF Len(s) > 0 /\ CharAt(s, 1) = " " THEN LStrip(SubSeq(s, 2, Len(s))) ELSE s

RECURSIVE RStrip(_)
RStrip(s) ==
    IF Len(s) > 0 /\ CharAt(s, Len(s)) = " " THEN RStrip(SubSeq(s, 1, Len(s) - 1)) ELSE s

Strip(s) == LStrip(RStrip(s))

\* re.sub(r'[-_]', ' ', s)
RECURSIVE HyphensToSpaces(_)
HyphensToSpaces(s) ==
    IF Len(s) = 0 THEN ""
    ELSE (IF CharAt(s, 1) \in {"-", "_"} THEN " " ELSE CharAt(s, 1))
         \o HyphensToSpaces(SubSeq(s, 2, Len(s)))

\* " ".join(parts)
RECURSIVE Join(_)
Join(parts) ==
    IF Len(parts) = 0 THEN ""
    ELSE IF Len(parts) = 1 THEN parts[1]
    ELSE parts[1] \o " " \o Join(Tail(parts))

\* [h for h in hints if not (h in seen or seen.add(h))]
RECURSIVE Dedupe(_)
Dedupe(hints) ==
    IF Len(hints) = 0 THEN <<>>
    ELSE LET init == Dedupe(SubSeq(hints, 1, Len(hints) - 1))
             last == hints[Len(hints)]
         IN  IF \E k \in 1..Len(init) : init[k] = last THEN init ELSE Append(init, last)

\* The concatenation of a tuple of tuples.
RECURSIVE Flatten(_)
Flatten(seqs) == IF Len(seqs) = 0 THEN <<>> ELSE seqs[1] \o Flatten(Tail(seqs))

LabelLikeTags == {"label", "span", "div", "p"}

(***************************************************************************)
(* FieldDetector.guess_field_name.                                         *)
(***************************************************************************)
\* One attribute's contribution: cleaned with hyphens and underscores as
\* spaces, kept when longer than one character.
AttributeHint(value) ==
    LET clean == Lower(Strip(HyphensToSpaces(value)))
    IN  IF value # "" /\ Len(clean) > 1 THEN <<clean>> ELSE <<>>

\* A sibling's contribution: the text of a label-like tag, when short.
SiblingHint(sib) ==
    LET text == Lower(Strip(sib.text))
    IN  IF sib.tag \in LabelLikeTags /\ text # "" /\ Len(text) < 50
        THEN <<text>> ELSE <<>>

guess_field_name(e) ==
    IF IsStale(e, "pass1") THEN "Unknown Field"
    ELSE
    LET attrs == AttributeHint(e.name) \o AttributeHint(e.id)
                 \o AttributeHint(e.placeholder) \o AttributeHint(e.aria_label)
                 \o AttributeHint(e.title) \o AttributeHint(e.data_label)
        for_labels == IF e.id # ""
                      THEN [k \in 1..Len(e.labels) |-> Lower(Strip(e.labels[k]))]
                      ELSE <<>>
        parent == IF e.parent_tag = "label"
                  THEN <<Lower(Strip(e.parent_text))>> ELSE <<>>
        preceding == Flatten([k \in 1..Len(e.prev) |-> SiblingHint(e.prev[k])])
        headers == LET Shown(h) == Strip(h) # ""
                   IN  [k \in 1..Len(SelectSeq(e.headers, Shown)) |->
                            Lower(Strip(SelectSeq(e.headers, Shown)[k]))]
        container == IF e.address_container
                     THEN <<"address field">> \o headers ELSE <<>>
        first2 == SubSeq(e.next, 1, IF Len(e.next) < 2 THEN Len(e.next) ELSE 2)
        following == Flatten([k \in 1..Len(first2) |-> SiblingHint(first2[k])])
        NotBlank(h) == h # "" /\ Strip(h) # ""
        field_hints == Dedupe(SelectSeq(attrs \o for_labels \o parent \o preceding
                                     \o container \o following, NotBlank))
    IN  IF Len(field_hints) > 0 THEN Join(field_hints) ELSE "Unknown Field"

(***************************************************************************)
(* FormAnalyzer: the queries of single elements.                           *)
(***************************************************************************)
\* Any failure of the collaborator makes the element not visible.
is_element_visible(e, phase) == e.visible /\ ~IsStale(e, phase)

is_element_required(e, phase) ==
    /\ ~IsStale(e, phase)
    /\ \/ e.required = "true"
       \/ e.aria_required = "true"
       \/ Contains(e.class, "required")

\* The id-based, then the name-based, then the structural XPath; "//unknown"
\* when not even the tag can be read.
get_xpath(e, phase) ==
    IF IsStale(e, phase) THEN "//unknown"
    ELSE IF e.id # "" /\ Strip(e.id) # "" THEN "//*[@id='" \o e.id \o "']"
    ELSE IF e.tag \in {"input", "select", "textarea"} /\ e.name # "" /\ Strip(e.name) # ""
         THEN "//" \o e.tag \o "[@name='" \o e.name \o "']"
    ELSE IF e.id # "" THEN "//*[@id=\"" \o e.id \o "\"]"
    ELSE IF e.tag \in {"input", "select", "textarea"} /\ e.name # ""
         THEN "//" \o e.tag \o "[@name=\"" \o e.name \o "\"]"
    ELSE e.path

EmptyMatch == [xpath |-> "", type |-> "", required |-> FALSE, found |-> FALSE]

\* d[k] = v on a Python dict: the key is added when it is new.
DictSet(d, k, v) == [x \in (DOMAIN d) \cup {k} |-> IF x = k THEN v ELSE d[x]]

button_terms == <<"submit", "send", "register", "sign up">>

\* any(term in text or term in value for term in button_terms)
HasSubmitText(e) ==
    \/ AnyIn(button_terms, Lower(Strip(e.text)))
    \/ AnyIn(button_terms, Lower(e.value))

process_button(e, res, phase) ==
    IF IsStale(e, phase) THEN res
    ELSE IF HasSubmitText(e) /\ ~res.fields["Submit"].found
         THEN [res EXCEPT !.fields = DictSet(@, "Submit",
                  [xpath |-> get_xpath(e, phase),
                   type |-> IF e.type # "" THEN e.type ELSE "button",
                   required |-> TRUE, found |-> TRUE])]
    ELSE res

\* CSS class selector .c: c is one of the space-separated classes.
HasClass(e, c) ==
    \E pos \in 1..(Len(e.class) - Len(c) + 1) :
        /\ SubSeq(e.class, pos, pos + Len(c) - 1) = c
        /\ (pos = 1 \/ CharAt(e.class, pos - 1) = " ")
        /\ (pos + Len(c) - 1 = Len(e.class) \/ CharAt(e.class, pos + Len(c)) = " ")

\* The selectors of find_submit_buttons, in its order.
SubmitSelectorCount == 7

MatchesSubmitSelector(e, k) ==
    CASE k = 1 -> e.tag = "input" /\ e.type = "submit"
      [] k = 2 -> e.tag = "button" /\ e.type = "submit"
      [] k = 3 -> HasClass(e, "submit-button")
      [] k = 4 -> e.tag = "button" /\ HasClass(e, "submit")
      [] k = 5 -> e.tag = "input" /\ HasClass(e, "submit")
      [] k = 6 -> HasClass(e, "btn-primary")
      [] OTHER -> e.tag = "button"

\* The buttons find_submit_buttons returns over the whole page `all` (the
\* page's elements in document order), queried in `phase`.
find_submit_buttons(all, phase) ==
    LET Visible(k) == LET Hit(e) == MatchesSubmitSelector(e, k)
                                    /\ is_element_visible(e, phase)
                      IN  SelectSeq(all, Hit)
        Texted(k) == SelectSeq(Visible(k), HasSubmitText)
        tiers == {k \in 1..SubmitSelectorCount : Len(Visible(k)) > 0}
    IN  IF tiers = {} THEN <<>>
        ELSE LET k == CHOOSE t \in tiers : \A u \in tiers : t <= u
             IN  IF Len(Texted(k)) > 0 THEN <<Texted(k)[1]>> ELSE Visible(k)

privacy_terms == <<"privacy", "terms", "policy", "agree", "consent", "gdpr">>

\* Whether find_privacy_checkbox returns this element.
IsPrivacyCheckbox(e, phase) ==
    /\ ~IsStale(e, phase)
    /\ e.type \in {"checkbox", "radio"}
    /\ \/ AnyIn(privacy_terms, Lower(e.name))
       \/ AnyIn(privacy_terms, Lower(e.id))
       \/ AnyIn(privacy_terms, Lower(e.aria_label))
       \/ AnyIn(privacy_terms, Lower(e.parent_text))
       \/ e.id # "" /\ \E k \in 1..Len(e.labels) : AnyIn(privacy_terms, Lower(e.labels[k]))

\* The first such element, or <<>> for None.
find_privacy_checkbox(elements, phase) ==
    LET Hit(e) == IsPrivacyCheckbox(e, phase)
        hits == SelectSeq(elements, Hit)
    IN  IF Len(hits) > 0 THEN <<hits[1]>> ELSE <<>>

(***************************************************************************)
(* FormAnalyzer.find_best_candidate_for_field.                             *)
(***************************************************************************)
\* The word ("first" or "last") that (?:first|last)(?:_|-|$|name) matches
\* at position p of v, or None.
NameWordAt(v, p) ==
    LET After(q) == \/ q = Len(v) + 1
                    \/ q <= Len(v) /\ CharAt(v, q) \in {"_", "-"}
                    \/ q + 3 <= Len(v) /\ SubSeq(v, q, q + 3) = "name"
    IN  IF p + 4 <= Len(v) /\ SubSeq(v, p, p + 4) = "first" /\ After(p + 5) THEN "first"
        ELSE IF p + 3 <= Len(v) /\ SubSeq(v, p, p + 3) = "last" /\ After(p + 4) THEN "last"
        ELSE None

\* re.search(r'(?:^|_|-)(?:first|last)(?:_|-|$|name)', v): the word of the
\* leftmost match, or None.
NameSegment(v) ==
    LET starts == {p \in 1..Len(v) :
                      /\ p = 1 \/ CharAt(v, p - 1) \in {"_", "-"}
                      /\ NameWordAt(v, p) # None}
    IN  IF starts = {} THEN None
        ELSE NameWordAt(v, CHOOSE p \in starts : \A q \in starts : p <= q)

\* The sum of f[k] over k in 1..n.
RECURSIVE SumTo(_, _)
SumTo(f, n) == IF n = 0 THEN 0 ELSE f[n] + SumTo(f, n - 1)

\* The score of one attribute value without the name-segment rule.
AttributeScoreNoSegment(value, field_name) ==
    LET patterns == PatternsOf(field_name)
        hit == [k \in 1..Len(patterns) |->
                   (IF Contains(value, patterns[k]) THEN 30 ELSE 0)
                   + (IF WordSearch(patterns[k], value) THEN 50 ELSE 0)]
    IN  IF value = "" THEN 0 ELSE SumTo(hit, Len(patterns))

\* The score one attribute value gives an element for field_name.
AttributeScore(value, field_name) ==
    LET patterns == PatternsOf(field_name)
        hit == [k \in 1..Len(patterns) |->
                   (IF Contains(value, patterns[k]) THEN 30 ELSE 0)
                   + (IF WordSearch(patterns[k], value) THEN 50 ELSE 0)]
        wanted == IF field_name = "FirstName" THEN "first" ELSE "last"
    IN  IF value = "" THEN 0
        ELSE SumTo(hit, Len(patterns))
             + (IF field_name \in {"FirstName", "LastName"} /\ NameSegment(value) = wanted
                THEN 100 ELSE 0)

\* The score of an element without the test of line 440 for a hidden one.
CandidateScoreOfHidden(e, field_name, phase) ==
    IF IsStale(e, phase) THEN 0
    ELSE (IF \/ field_name = "Email" /\ TypeOrTag(e) = "email"
             \/ field_name = "Phone" /\ TypeOrTag(e) = "tel"
          THEN 50 ELSE 0)
         + AttributeScore(Lower(e.name), field_name)
         + AttributeScore(Lower(e.id), field_name)
         + AttributeScore(Lower(e.placeholder), field_name)
         + AttributeScore(Lower(e.aria_label), field_name)

\* The score of an element for field_name (0 for one that is never scored).
CandidateScore(e, field_name, phase) ==
    IF IsStale(e, phase) \/ TypeOrTag(e) = "hidden" THEN 0
    ELSE (IF \/ field_name = "Email" /\ TypeOrTag(e) = "email"
             \/ field_name = "Phone" /\ TypeOrTag(e) = "tel"
          THEN 50 ELSE 0)
         + AttributeScore(Lower(e.name), field_name)
         + AttributeScore(Lower(e.id), field_name)
         + AttributeScore(Lower(e.placeholder), field_name)
         + AttributeScore(Lower(e.aria_label), field_name)

\* A text input one of whose name, id, placeholder holds "name" and neither
\* "first" nor "last".
IsAmbiguousName(e, phase) ==
    /\ ~IsStale(e, phase)
    /\ e.type = "text"
    /\ \E v \in {Lower(e.name), Lower(e.id), Lower(e.placeholder)} :
          Contains(v, "name") /\ ~Contains(v, "first") /\ ~Contains(v, "last")

\* The scores of the first n elements, in their order.
RECURSIVE CandidateScores(_, _, _, _)
CandidateScores(elements, field_name, phase, n) ==
    IF n = 0 THEN <<>>
    ELSE Append(CandidateScores(elements, field_name, phase, n - 1),
                CandidateScore(elements[n], field_name, phase))

\* candidates.sort(key=lambda x: x[1], reverse=True); candidates[0][0]: the
\* first of the elements with the highest score.
HighestScored(elements, scores) ==
    elements[CHOOSE k \in 1..Len(scores) :
                 \A m \in 1..Len(scores) :
                     scores[m] < scores[k] \/ (scores[m] = scores[k] /\ k <= m)]

\* The positional fallback applied to two or more name fields.
NameFallbackTwoOrMore(field_name, name_fields) ==
    IF field_name \in {"FirstName", "LastName"} /\ Len(name_fields) >= 2
    THEN IF field_name = "FirstName" THEN <<name_fields[1]>> ELSE <<name_fields[2]>>
    ELSE <<>>

\* The positional fallback for FirstName and LastName.
NameFallback(field_name, name_fields) ==
    IF field_name \in {"FirstName", "LastName"} /\ Len(name_fields) = 2
    THEN IF field_name = "FirstName" THEN <<name_fields[1]>> ELSE <<name_fields[2]>>
    ELSE <<>>

\* The choice among the elements, given their scores.
ChooseCandidate(elements, field_name, phase, scores) ==
    IF \E k \in 1..Len(scores) : scores[k] > 0
    THEN <<HighestScored(elements, scores)>>
    ELSE LET Ambiguous(e) == IsAmbiguousName(e, phase)
         IN  NameFallback(field_name, SelectSeq(elements, Ambiguous))

\* The best candidate, or <<>> for None.
find_best_candidate_for_field(elements, field_name, phase) ==
    ChooseCandidate(elements, field_name, phase,
                    CandidateScores(elements, field_name, phase, Len(elements)))

(***************************************************************************)
(* Pages.  A page is what the collaborator answers once it is loaded: its  *)
(* forms in document order, each with its elements, the elements outside   *)
(* any form, whether it shows a CAPTCHA indicator ("indicator"), none      *)
(* ("none") or the detection raises ("error"), and whether every query of  *)
(* the page raises (broken).                                               *)
(***************************************************************************)
AllPageElements(page) ==
    Flatten([k \in 1..Len(page.forms) |-> page.forms[k].els]) \o page.loose

\* FormAnalyzer.has_captcha: any error inside is answered False.
has_captcha(page) == ~page.broken /\ page.captcha = "indicator"

\* input:not([type='hidden']), select, textarea
IsInputLike(e) ==
    \/ e.tag = "input" /\ e.type # "hidden"
    \/ e.tag \in {"select", "textarea"}

common_fields == <<"email", "name", "first", "last", "phone", "address">>

\* The score of a form and its count of visible inputs.
FormScore(form) ==
    LET VisibleInput(e) == IsInputLike(e) /\ is_element_visible(e, "locate")
        visible_inputs == Len(SelectSeq(form.els, VisibleInput))
        Named(field) == \E k \in 1..Len(form.els) :
                           /\ form.els[k].tag = "input"
                           /\ \/ Contains(Lower(form.els[k].name), field)
                              \/ Contains(Lower(form.els[k].id), field)
        boosts == Cardinality({k \in 1..Len(common_fields) : Named(common_fields[k])})
        submit == \E k \in 1..Len(form.els) :
                     /\ form.els[k].tag \in {"input", "button"}
                     /\ form.els[k].type = "submit"
    IN  [score |-> visible_inputs * 10 + boosts * 20 + (IF submit THEN 30 ELSE 0),
         input_count |-> visible_inputs]

\* The selectors the elements of a container are collected with, in order.
CollectSelectorCount == 6

MatchesCollectSelector(e, k) ==
    CASE k = 1 -> e.tag = "input" /\ e.type # "hidden"
      [] k = 2 -> e.tag = "select"
      [] k = 3 -> e.tag = "textarea"
      [] k = 4 -> e.tag = "button"
      [] k = 5 -> e.tag = "div" /\ e.role = "button"
      [] OTHER -> e.tag = "span" /\ e.role = "button"

\* The visible elements of `els`, selector by selector.
CollectVisible(els) ==
    Flatten([k \in 1..CollectSelectorCount |->
                LET Hit(e) == MatchesCollectSelector(e, k)
                              /\ is_element_visible(e, "locate")
                IN  SelectSeq(els, Hit)])

\* The form with the highest score, whatever its count of visible inputs.
ChooseFormHighestScore(forms) ==
    LET cands == {k \in 1..Len(forms) : ~forms[k].stale}
        Before(a, b) == \/ FormScore(forms[a]).score > FormScore(forms[b]).score
                        \/ /\ FormScore(forms[a]).score = FormScore(forms[b]).score
                           /\ a <= b
    IN  IF cands = {} THEN 1
        ELSE CHOOSE a \in cands : \A b \in cands : Before(a, b)

\* The choice with a sort that puts the later of two equal scores first.
ChooseFormLastOnTies(forms) ==
    LET cands == {k \in 1..Len(forms) : ~forms[k].stale}
        Before(a, b) == \/ FormScore(forms[a]).score > FormScore(forms[b]).score
                        \/ /\ FormScore(forms[a]).score = FormScore(forms[b]).score
                           /\ a >= b
        First(set) == CHOOSE a \in set : \A b \in set : Before(a, b)
        enough == {k \in cands : FormScore(forms[k]).input_count >= 2}
    IN  IF cands = {} THEN 1
        ELSE IF enough # {} THEN First(enough)
        ELSE First(cands)

\* The index of the form chosen among the forms of the page: the candidates
\* are the forms that could be scored, sorted by score, descending and
\* stable; the first with 2 visible inputs or more, else the first; the
\* first form of the page when none could be scored.
ChooseForm(forms) ==
    LET cands == {k \in 1..Len(forms) : ~forms[k].stale}
        Before(a, b) == \/ FormScore(forms[a]).score > FormScore(forms[b]).score
                        \/ /\ FormScore(forms[a]).score = FormScore(forms[b]).score
                           /\ a <= b
        First(set) == CHOOSE a \in set : \A b \in set : Before(a, b)
        enough == {k \in cands : FormScore(forms[k]).input_count >= 2}
    IN  IF cands = {} THEN 1
        ELSE IF enough # {} THEN First(enough)
        ELSE First(cands)

NoContainer == [kind |-> "none", index |-> 0]

\* The container find_form_and_elements settles on: the chosen form, or the
\* body of a page that has inputs and no form.
MainContainer(page) ==
    IF Len(page.forms) = 0 THEN [kind |-> "body", index |-> 0]
    ELSE [kind |-> "form", index |-> ChooseForm(page.forms)]

\* The visible elements of the k-th form; a form that went stale gives none.
FormElements(page, k) ==
    IF page.forms[k].stale THEN <<>> ELSE CollectVisible(page.forms[k].els)

\* The visible elements of the main container.
OwnElements(page, main) ==
    IF main.kind = "body" THEN CollectVisible(AllPageElements(page))
    ELSE FormElements(page, main.index)

\* if len(all_form_elements) < 3: the elements of the other forms are added.
WidenToForms(page, main, own) ==
    IF Len(own) < 3
    THEN own \o Flatten([k \in 1..Len(page.forms) |->
                            IF main.kind = "form" /\ k = main.index THEN <<>>
                            ELSE FormElements(page, k)])
    ELSE own

\* The second widening without its test `element not in all_form_elements`.
WidenToPageKeepsAll(page, widened) ==
    IF Len(widened) < 3
    THEN widened \o CollectVisible(AllPageElements(page))
    ELSE widened

\* if len(all_form_elements) < 3, again: the elements of the whole page that
\* are not yet in the list are added.
WidenToPage(page, widened) ==
    IF Len(widened) < 3
    THEN LET New(e) == ~\E k \in 1..Len(widened) : widened[k] = e
         IN  widened \o SelectSeq(CollectVisible(AllPageElements(page)), New)
    ELSE widened

CollectElements(page, main) ==
    [main_container |-> main,
     elements |-> WidenToPage(page, WidenToForms(page, main, OwnElements(page, main)))]

\* FormAnalyzer.find_form_and_elements: (main_container, all_form_elements).
find_form_and_elements(page) ==
    IF page.broken THEN [main_container |-> NoContainer, elements |-> <<>>]
    ELSE IF Len(page.forms) = 0 /\ ~\E k \in 1..Len(page.loose) : page.loose[k].tag = "input"
    THEN [main_container |-> NoContainer, elements |-> <<>>]
    ELSE CollectElements(page, MainContainer(page))

(***************************************************************************)
(* The inputs of the model: the URLs of the lists the crawl is given, the  *)
(* pages their sites serve, and the hints the classifier is asked about.   *)
(***************************************************************************)
MaxUrls == 2
MaxBatchSize == 2
MaxRuns == 2
MaxTerminations == 1
MaxScored == 3
MaxForms == 3
MaxSiblings == 1

ShopUrl == "http://shop.example/contact"
BlankUrl == "https://blank.example/"
\* A line of the URL file whose network location has an unbalanced bracket.
BracketUrl == "//[bad"
HttpBracketUrl == "http://[bad"

Urls == {ShopUrl, BlankUrl, BracketUrl, HttpBracketUrl}

RECURSIVE ListsUpTo(_)
\* The lists of at most n distinct URLs.
ListsUpTo(n) ==
    IF n = 0 THEN {<<>>}
    ELSE LET shorter == ListsUpTo(n - 1)
         IN  shorter \cup {Append(l, u) : l \in shorter, u \in Urls}

UrlLists ==
    {l \in ListsUpTo(MaxUrls) :
        /\ Len(l) > 0
        /\ \A a, b \in 1..Len(l) : a # b => l[a] # l[b]}

\* The elements of the contact form of ShopUrl.
FirstNameInput ==
    [BaseElement EXCEPT !.eid = 1, !.type = "text", !.name = "first_name",
                        !.required = "true"]
SurnameInput ==
    [BaseElement EXCEPT !.eid = 2, !.type = "text", !.id = "surname",
                        !.labels = <<"Last name">>]
EmailInput ==
    [BaseElement EXCEPT !.eid = 3, !.type = "email", !.name = "email"]
CouponInput ==
    [BaseElement EXCEPT !.eid = 4, !.type = "text", !.name = "coupon",
                        !.required = "true"]
NicknameInput ==
    [BaseElement EXCEPT !.eid = 5, !.type = "text", !.name = "given"]
GdprCheckbox ==
    [BaseElement EXCEPT !.eid = 6, !.type = "checkbox", !.name = "gdpr"]
SendButton ==
    [BaseElement EXCEPT !.eid = 7, !.tag = "button", !.path = "/html/body/form/button",
                        !.type = "submit", !.text = "Send"]
TrackingInput ==
    [BaseElement EXCEPT !.eid = 8, !.type = "hidden", !.name = "token"]
SearchInput ==
    [BaseElement EXCEPT !.eid = 9, !.type = "text", !.name = "q"]

CaptchaOutcomes == {"none", "indicator", "error"}

\* The contact page: one form; `captcha` is the outcome of the detection and
\* `stale` tells from when on the consent checkbox is detached from the DOM.
ContactPage(captcha, stale) ==
    [forms |-> << [els |-> <<FirstNameInput, SurnameInput, EmailInput, CouponInput,
                            NicknameInput, [GdprCheckbox EXCEPT !.stale = stale],
                            SendButton, TrackingInput>>,
                   stale |-> FALSE] >>,
     loose |-> <<>>, captcha |-> captcha, broken |-> FALSE]

\* A page with no form and no input.
EmptyPage == [forms |-> <<>>, loose |-> <<>>, captcha |-> "none", broken |-> FALSE]

\* A page whose only form holds a single search box.
SearchPage ==
    [forms |-> << [els |-> <<SearchInput>>, stale |-> FALSE] >>,
     loose |-> <<>>, captcha |-> "none", broken |-> FALSE]

\* A page every query of which raises.
BrokenPage == [EmptyPage EXCEPT !.broken = TRUE]

ConfirmCityInput ==
    [BaseElement EXCEPT !.eid = 11, !.type = "email", !.name = "confirm_city_email"]
LoginButton ==
    [BaseElement EXCEPT !.eid = 12, !.tag = "button", !.path = "/html/body/form/button",
                        !.text = "Log in"]

RepeatEmailInput ==
    [BaseElement EXCEPT !.eid = 13, !.type = "email", !.name = "repeat_email",
                        !.stale = "late"]

\* The reminder page: one form with an e-mail confirmation input, which is
\* detached from the DOM once pass 1 is over, and a button.
ReminderPage ==
    [forms |-> << [els |-> <<RepeatEmailInput, LoginButton>>, stale |-> FALSE] >>,
     loose |-> <<>>, captcha |-> "none", broken |-> FALSE]

\* The sign-up page: one form with an e-mail confirmation input and a button;
\* `stale` tells from when on the input is detached from the DOM.
SignupPage(stale) ==
    [forms |-> << [els |-> <<[ConfirmCityInput EXCEPT !.stale = stale], LoginButton>>,
                   stale |-> FALSE] >>,
     loose |-> <<>>, captcha |-> "none", broken |-> FALSE]

\* The pages a navigation to `url` may load.
PagesOf(u) ==
    IF u = ShopUrl
    THEN {ContactPage(c, "no") : c \in CaptchaOutcomes}
             \cup {ContactPage("indicator", "pass1")}
    ELSE {EmptyPage, SearchPage, BrokenPage, SignupPage("no"), SignupPage("late"),
          ReminderPage}

\* The messages of the exceptions a navigation may raise besides the
\* timeout and the invalid session.
NavigationErrors == {"net::ERR_NAME_NOT_RESOLVED", "Browser window was closed"}

(***************************************************************************)
(* The hint and the field of an element depend on the element alone, and   *)
(* the form search on the page alone: for the elements and the pages above *)
(* they are evaluated once and looked up afterwards.                       *)
(***************************************************************************)
ModelPages == UNION {PagesOf(u) : u \in {ShopUrl, BlankUrl}}

ModelElements ==
    UNION {{AllPageElements(p)[k] : k \in 1..Len(AllPageElements(p))} : p \in ModelPages}

Classified ==
    {[element |-> e,
      guessed |-> guess_field_name(e),
      mapped |-> map_to_standard_field(guess_field_name(e), TypeOrTag(e))] :
        e \in ModelElements}

\* guessed_name = self.field_detector.guess_field_name(element, self.driver)
GuessedName(e) ==
    IF e \in ModelElements THEN (CHOOSE c \in Classified : c.element = e).guessed
    ELSE guess_field_name(e)

\* The field of an element under a classifier that knows no Privacy.
MappedFieldWithoutPrivacy(e) ==
    LET mapped == map_to_standard_field(guess_field_name(e), TypeOrTag(e))
    IN  IF mapped = "Privacy" THEN None ELSE mapped

\* mapped_field = self.field_detector.map_to_standard_field(guessed_name, element_type)
MappedField(e) ==
    IF e \in ModelElements THEN (CHOOSE c \in Classified : c.element = e).mapped
    ELSE map_to_standard_field(guess_field_name(e), TypeOrTag(e))

Located == {[page |-> p, found |-> find_form_and_elements(p)] : p \in ModelPages}

\* main_container, all_form_elements = self.form_analyzer.find_form_and_elements()
FormAndElements(p) ==
    IF p \in ModelPages THEN (CHOOSE l \in Located : l.page = p).found
    ELSE find_form_and_elements(p)

(***************************************************************************)
(* FormFieldScraper.process_form_elements and find_missing_fields.  The    *)
(* state of one page's processing: the result being filled in, the fields  *)
(* claimed in pass 1, the two candidate lists, and whether an exception    *)
(* reached the outer handler.                                              *)
(***************************************************************************)
\* The fields built from the keys of the pattern table, which has no entry
\* for "Submit".
EmptyFieldsOfPatternTable ==
    [f \in {field_patterns[k].field : k \in 1..Len(field_patterns)} |-> EmptyMatch]

\* The result scrape_form_fields starts every attempt with.
EmptyFields == [f \in StandardFieldSet |-> EmptyMatch]

StartProcessing(res) ==
    [result |-> res, processed_fields |-> {}, privacy_candidates |-> <<>>,
     email_confirmation_candidates |-> <<>>, raised |-> FALSE]

confirm_terms == <<"confirm", "verify", "repeat">>

\* The hint and the field of an element, as pass 1 computes them.
Classification(e) == [guessed |-> GuessedName(e), mapped |-> MappedField(e)]

\* Lines 200-213: the element joins the side lists of candidates.
NoteCandidates(st, e, etype, c) ==
    [st EXCEPT
       !.privacy_candidates =
           IF etype \in {"checkbox", "radio"} /\ AnyIn(privacy_terms, Lower(c.guessed))
           THEN Append(@, e) ELSE @,
       !.email_confirmation_candidates =
           IF \/ c.mapped = "ConfirmEmail"
              \/ etype = "email" /\ AnyIn(confirm_terms, Lower(c.guessed))
           THEN Append(@, e) ELSE @]

\* An entry of result['additional_fields'].
AdditionalField(e, etype, guessed, required) ==
    [field_name |-> guessed, xpath |-> get_xpath(e, "pass1"),
     element_type |-> etype, required |-> required]

\* The element claims its field whether or not the field is claimed.
FileElementLastWins(st, e, etype, c, is_required) ==
    IF c.mapped # None
    THEN [st EXCEPT
             !.result.fields = DictSet(@, c.mapped,
                 [xpath |-> get_xpath(e, "pass1"), type |-> etype,
                  required |-> is_required, found |-> TRUE]),
             !.processed_fields = @ \cup {c.mapped}]
    ELSE IF is_required
    THEN [st EXCEPT !.result.additional_fields =
             Append(@, AdditionalField(e, etype, c.guessed, TRUE))]
    ELSE [st EXCEPT !.result.additional_fields =
             Append(@, AdditionalField(e, etype, c.guessed, FALSE))]

\* Lines 215-237: the element claims its field, or is filed as an
\* additional field.
FileElement(st, e, etype, c, is_required) ==
    IF c.mapped # None /\ c.mapped \notin st.processed_fields
    THEN [st EXCEPT
             !.result.fields = DictSet(@, c.mapped,
                 [xpath |-> get_xpath(e, "pass1"), type |-> etype,
                  required |-> is_required, found |-> TRUE]),
             !.processed_fields = @ \cup {c.mapped}]
    ELSE IF is_required
    THEN [st EXCEPT !.result.additional_fields =
             Append(@, AdditionalField(e, etype, c.guessed, TRUE))]
    ELSE IF c.mapped = None
    THEN [st EXCEPT !.result.additional_fields =
             Append(@, AdditionalField(e, etype, c.guessed, FALSE))]
    ELSE st

\* Lines 190-237 for an element with the given type and classification.
ClassifyAndFile(st, e, etype, c) ==
    FileElement(NoteCandidates(st, e, etype, c), e, etype, c,
                is_element_required(e, "pass1"))

\* The body of the pass-1 loop for one element.
ProcessElement(st, e) ==
    IF ~is_element_visible(e, "pass1") THEN st
    ELSE IF TypeOrTag(e) = "hidden" THEN st
    ELSE IF TypeOrTag(e) \in {"submit", "button", "image"}
         THEN [st EXCEPT !.result = process_button(e, st.result, "pass1")]
    ELSE ClassifyAndFile(st, e, TypeOrTag(e), Classification(e))

\* A fallback of lines 241-259: claim `field` with the first candidate.
\* Reading the candidate's type raises when it went stale.
CandidateFallback(st, field, candidates) ==
    IF Len(candidates) > 0 /\ ~st.result.fields[field].found
    THEN IF IsStale(candidates[1], "late") THEN [st EXCEPT !.raised = TRUE]
         ELSE [st EXCEPT !.result.fields = DictSet(@, field,
                  [xpath |-> get_xpath(candidates[1], "late"),
                   type |-> candidates[1].type,
                   required |-> FALSE, found |-> TRUE])]
    ELSE st

PrivacyFallback(st) == CandidateFallback(st, "Privacy", st.privacy_candidates)

ConfirmEmailFallback(st) ==
    CandidateFallback(st, "ConfirmEmail", st.email_confirmation_candidates)

\* Lines 262-274 for the buttons found.
ClaimSubmit(st, buttons) ==
    IF ~st.result.fields["Submit"].found /\ Len(buttons) > 0
    THEN [st EXCEPT !.result.fields = DictSet(@, "Submit",
             [xpath |-> get_xpath(buttons[1], "late"),
              type |-> IF buttons[1].type # "" THEN buttons[1].type ELSE "button",
              required |-> TRUE, found |-> TRUE])]
    ELSE st

\* Lines 261-274: submit discovery over the whole page.
SubmitDiscovery(st, page) ==
    IF st.result.fields["Submit"].found THEN st
    ELSE ClaimSubmit(st, IF page.broken THEN <<>>
                         ELSE find_submit_buttons(AllPageElements(page), "late"))

\* A match of pass 2: find_missing_fields' record for a found element.
RecoveredMatch(e) ==
    [xpath |-> get_xpath(e, "late"), type |-> TypeOrTag(e),
     required |-> is_element_required(e, "late"), found |-> TRUE]

\* result['fields'][field_name] = {...} for the element pass 2 found, if any.
Recover(res, field_name, found) ==
    IF Len(found) > 0
    THEN [res EXCEPT !.fields = DictSet(@, field_name, RecoveredMatch(found[1]))]
    ELSE res

\* Lines 292-305: the privacy checkbox search of pass 2.
FindMissingPrivacy(res, elements) ==
    IF res.fields["Privacy"].found THEN res
    ELSE Recover(res, "Privacy", find_privacy_checkbox(elements, "late"))

\* Lines 308-322, for one priority field.
FindMissingPriority(res, elements, field_name) ==
    IF res.fields[field_name].found THEN res
    ELSE Recover(res, field_name,
                 find_best_candidate_for_field(elements, field_name, "late"))

\* find_missing_fields without its last statement.
PromoteNothing(res) == res

\* Lines 324-327: a lone ConfirmEmail becomes the Email.
PromoteConfirmEmail(res) ==
    IF ~res.fields["Email"].found /\ res.fields["ConfirmEmail"].found
    THEN [res EXCEPT !.fields =
             DictSet(DictSet(@, "Email", res.fields["ConfirmEmail"]),
                     "ConfirmEmail", EmptyMatch)]
    ELSE res

RECURSIVE FindMissingPriorities(_, _, _)
FindMissingPriorities(res, elements, k) ==
    IF k = 0 THEN res
    ELSE FindMissingPriority(FindMissingPriorities(res, elements, k - 1),
                             elements, priority_fields[k])

find_missing_fields(elements, res) ==
    PromoteConfirmEmail(
        FindMissingPriorities(FindMissingPrivacy(res, elements), elements,
                              Len(priority_fields)))

\* Pass 1 over the first n elements.
RECURSIVE Pass1(_, _, _)
Pass1(st, elements, n) ==
    IF n = 0 THEN st ELSE ProcessElement(Pass1(st, elements, n - 1), elements[n])

\* A step of what follows pass 1; an exception in an earlier step skips it.
ThenConfirmEmail(st) == IF st.raised THEN st ELSE ConfirmEmailFallback(st)

ThenSubmit(st, page) == IF st.raised THEN st ELSE SubmitDiscovery(st, page)

ThenMissingFields(st, elements) ==
    IF st.raised THEN st
    ELSE [st EXCEPT !.result = find_missing_fields(elements, st.result)]

\* Lines 241-277: the fallbacks, the submit discovery and pass 2.
AfterPass1(st, elements, page) ==
    ThenMissingFields(ThenSubmit(ThenConfirmEmail(PrivacyFallback(st)), page), elements)

\* process_form_elements(elements, result): the result it leaves.
process_form_elements(elements, res, page) ==
    IF Len(elements) = 0 THEN res
    ELSE AfterPass1(Pass1(StartProcessing(res), elements, Len(elements)),
                    elements, page).result

(***************************************************************************)
(* URLs: urlparse(url).netloc, as the scraper uses it.                     *)
(***************************************************************************)
SchemeChars == LowerChars \o UpperChars \o DigitChars \o "+-."

\* The index of the colon that ends the URL's scheme, or 0.
SchemeEnd(u) ==
    LET colons == {pos \in 2..Len(u) :
                      /\ CharAt(u, pos) = ":"
                      /\ \A idx \in 1..(pos - 1) : CharAt(u, idx) # ":"}
    IN  IF colons = {} THEN 0
        ELSE LET pos == CHOOSE c \in colons : TRUE
             IN  IF /\ Contains(LowerChars \o UpperChars, CharAt(u, 1))
                    /\ \A idx \in 1..(pos - 1) : Contains(SchemeChars, CharAt(u, idx))
                 THEN pos ELSE 0

\* The network location: what follows "//" up to the next "/", "?" or "#".
Netloc(u) ==
    LET rest == SubSeq(u, SchemeEnd(u) + 1, Len(u))
        ends == {pos \in 3..Len(rest) : CharAt(rest, pos) \in {"/", "?", "#"}}
        stop == IF ends = {} THEN Len(rest) + 1
                ELSE CHOOSE pos \in ends : \A idx \in ends : pos <= idx
    IN  IF Len(rest) >= 2 /\ SubSeq(rest, 1, 2) = "//" THEN SubSeq(rest, 3, stop - 1)
        ELSE ""

\* urlparse raises ValueError("Invalid IPv6 URL") on an unbalanced bracket.
UrlparseRaises(u) == Contains(Netloc(u), "[") # Contains(Netloc(u), "]")

(***************************************************************************)
(* FormFieldScraper.scrape_form_fields: one attempt on a loaded page.      *)
(***************************************************************************)
\* Lines 78-90: the result every attempt starts from.
NewResult(u) ==
    [url |-> u, domain |-> Netloc(u), fields |-> EmptyFields,
     additional_fields |-> <<>>, has_captcha |-> FALSE,
     has_additional_required_fields |-> FALSE, error |-> None]

\* Lines 125-127: the flag of the additional fields.
FlagAdditional(res) ==
    [res EXCEPT !.has_additional_required_fields =
                      @ \/ Len(res.additional_fields) > 0]

\* Lines 114-127 for what the form search returned.
ScrapeLocated(res, page, located) ==
    IF located.main_container.kind = "none"
    THEN [res EXCEPT !.error = "No form or input fields found"]
    ELSE IF Len(located.elements) < 2
    THEN [res EXCEPT !.error = "Not enough form elements found"]
    ELSE FlagAdditional(process_form_elements(located.elements, res, page))

\* Lines 102-127: the CAPTCHA check, the form search and the processing of
\* the elements of a page that was loaded.
ScrapeLoadedPage(res, page) ==
    ScrapeLocated([res EXCEPT !.has_captcha = has_captcha(page)], page,
                  FormAndElements(page))

(***************************************************************************)
(* FormFieldScraper.save_results_to_csv: the row written for one result.   *)
(***************************************************************************)
\* Lines 438-459: the cells of a result's row.  A field that was not found
\* is written with an empty type and XPath.
CsvRow(res) ==
    [url |-> res.url,
     domain |-> res.domain,
     HasAdditionalFields |-> Len(res.additional_fields) > 0,
     HasCaptcha |-> res.has_captcha,
     error |-> res.error,
     cells |-> [f \in DOMAIN res.fields |->
                   IF res.fields[f].found
                   THEN [Type |-> res.fields[f].type, XPath |-> res.fields[f].xpath]
                   ELSE [Type |-> "", XPath |-> ""]],
     additional |-> [k \in 1..Len(res.additional_fields) |->
                        [Name |-> res.additional_fields[k].field_name,
                         Type |-> res.additional_fields[k].element_type,
                         XPath |-> res.additional_fields[k].xpath,
                         Required |-> res.additional_fields[k].required]]]

\* Lines 405-461: the file is opened with mode 'w', so what it held is
\* replaced by the header and one row per result, in order.
save_results_to_csv(results) == [k \in 1..Len(results) |-> CsvRow(results[k])]

(***************************************************************************)
(* The inputs of the candidate scorer and of the form search on their own. *)
(***************************************************************************)
\* The elements find_best_candidate_for_field is asked about.
UserFirstNameInput ==
    [BaseElement EXCEPT !.eid = 21, !.type = "text", !.name = "user_first_name"]
PlainNameInput ==
    [BaseElement EXCEPT !.eid = 22, !.type = "text", !.name = "name"]
ContactNameInput ==
    [BaseElement EXCEPT !.eid = 23, !.type = "text", !.id = "contact_name"]
DisplayNameInput ==
    [BaseElement EXCEPT !.eid = 24, !.type = "text", !.placeholder = "Display name"]
WorkEmailInput ==
    [BaseElement EXCEPT !.eid = 25, !.type = "email", !.name = "work"]
NameSelect ==
    [BaseElement EXCEPT !.eid = 26, !.tag = "select", !.path = "/html/body/select",
                        !.name = "name_format"]
HomeEmailInput ==
    [BaseElement EXCEPT !.eid = 27, !.type = "email", !.name = "home"]
HiddenEmailInput ==
    [BaseElement EXCEPT !.eid = 28, !.type = "hidden", !.name = "email"]

ScoredElements ==
    {UserFirstNameInput, PlainNameInput, ContactNameInput, DisplayNameInput,
     WorkEmailInput, NameSelect, HomeEmailInput, HiddenEmailInput}

RECURSIVE DistinctUpTo(_, _)
\* The tuples of at most n distinct members of `pool`.
DistinctUpTo(pool, n) ==
    IF n = 0 THEN {<<>>}
    ELSE LET shorter == DistinctUpTo(pool, n - 1)
         IN  shorter \cup
             {t \in {Append(l, x) : l \in shorter, x \in pool} :
                 \A a, b \in 1..Len(t) : a # b => t[a] # t[b]}

ScoredLists == DistinctUpTo(ScoredElements, MaxScored)

ScoredFields == {"FirstName", "LastName", "Email"}

\* The forms of the pages find_form_and_elements is asked about.
LoginForm ==
    [els |-> <<[BaseElement EXCEPT !.eid = 31, !.type = "email", !.name = "email"],
               [BaseElement EXCEPT !.eid = 32, !.tag = "button", !.type = "submit",
                                   !.path = "/html/body/form/button", !.text = "Log in"]>>,
     stale |-> FALSE]
SurveyForm ==
    [els |-> <<[BaseElement EXCEPT !.eid = 33, !.type = "text", !.name = "q1"],
               [BaseElement EXCEPT !.eid = 34, !.tag = "textarea", !.name = "q2",
                                   !.path = "/html/body/form/textarea"]>>,
     stale |-> FALSE]
SearchBoxForm ==
    [els |-> <<[BaseElement EXCEPT !.eid = 35, !.type = "text", !.name = "q"]>>,
     stale |-> FALSE]
DetachedForm ==
    [els |-> <<[BaseElement EXCEPT !.eid = 36, !.type = "text", !.name = "phone"],
               [BaseElement EXCEPT !.eid = 37, !.type = "text", !.name = "address"]>>,
     stale |-> TRUE]
HalfHiddenForm ==
    [els |-> <<[BaseElement EXCEPT !.eid = 38, !.type = "text", !.name = "last_name"],
               [BaseElement EXCEPT !.eid = 39, !.type = "text", !.name = "first_name",
                                   !.visible = FALSE],
               [BaseElement EXCEPT !.eid = 40, !.type = "hidden", !.name = "csrf"]>>,
     stale |-> FALSE]

ProfileForm ==
    [els |-> <<[BaseElement EXCEPT !.eid = 41, !.type = "text", !.name = "first_name"],
               [BaseElement EXCEPT !.eid = 42, !.tag = "select", !.name = "country",
                                   !.path = "/html/body/form/select"]>>,
     stale |-> FALSE]

PollForm ==
    [els |-> <<[BaseElement EXCEPT !.eid = 43, !.type = "radio", !.name = "vote"],
               [BaseElement EXCEPT !.eid = 44, !.type = "text", !.name = "why"]>>,
     stale |-> FALSE]

FilterForm ==
    [els |-> <<[BaseElement EXCEPT !.eid = 45, !.tag = "select", !.name = "sort",
                                   !.path = "/html/body/form/select"]>>,
     stale |-> FALSE]

OrderForm ==
    [els |-> <<[BaseElement EXCEPT !.eid = 46, !.type = "text", !.name = "item"],
               [BaseElement EXCEPT !.eid = 47, !.type = "number", !.name = "quantity"],
               [BaseElement EXCEPT !.eid = 48, !.tag = "button", !.type = "submit",
                                   !.path = "/html/body/form/button", !.text = "Order"]>>,
     stale |-> FALSE]

LocatedForms ==
    {LoginForm, SurveyForm, SearchBoxForm, DetachedForm, HalfHiddenForm, ProfileForm,
     PollForm, FilterForm, OrderForm}

\* The pages of at most MaxForms distinct forms, with or without an input
\* outside any form.
LocatedPages ==
    {[forms |-> fs, loose |-> ls, captcha |-> "none", broken |-> FALSE] :
        fs \in DistinctUpTo(LocatedForms, MaxForms), ls \in {<<>>, <<SearchInput>>}}

\* The elements guess_field_name is asked about: a name and an id, a label
\* for the id, a parent label, label-like siblings before and after, and an
\* address container with or without a legend.
SiblingTexts == {"Company_name", "City"}

Siblings ==
    {<<>>} \cup UNION {[1..n -> {[tag |-> "label", text |-> t] : t \in SiblingTexts}] :
                          n \in 1..MaxSiblings}

HintedElements ==
    {[BaseElement EXCEPT !.eid = 50, !.name = n, !.id = d, !.labels = l,
                         !.parent_tag = p.tag, !.parent_text = p.text,
                         !.prev = before, !.next = after,
                         !.address_container = c.found, !.headers = c.headers] :
        n \in {"", "first_name", "e-mail"},
        d \in {"", "zip_code"},
        l \in {<<>>, <<"E-mail">>},
        p \in {[tag |-> "div", text |-> ""], [tag |-> "label", text |-> "Zip-code"]},
        before \in Siblings,
        after \in Siblings,
        c \in {[found |-> FALSE, headers |-> <<>>],
               [found |-> TRUE, headers |-> <<>>],
               [found |-> TRUE, headers |-> <<"Shipping-address">>]}}

\* The words the hints of the classifier's inputs are made of.
HintWords ==
    {"Company", "city", "job title", "e-mail", "first name", "phone", "agree", "dr",
     "line1", "thoroughfare", "countries", "Unknown Field"}

RECURSIVE HintsUpTo(_)
\* The hints of at most n words.
HintsUpTo(n) ==
    IF n = 0 THEN {""}
    ELSE LET shorter == HintsUpTo(n - 1)
         IN  shorter \cup {IF h = "" THEN w ELSE h \o " " \o w :
                              h \in shorter, w \in HintWords}

\* The label of a consent checkbox.
ConsentHint == "I agree to the Privacy Policy and Terms"

Hints == HintsUpTo(MaxHintWords) \cup {ConsentHint}

ElementTypes == {"text", "email", "tel", "checkbox", "radio", "submit"}

(***************************************************************************)
(* The state of the crawl.                                                 *)
(***************************************************************************)
VARIABLES
    url_list,          \* the URL list every run is given
    batch_size,        \* the batch size every run is given
    ckpt,              \* the lines of the checkpoint log, "<output_file>.checkpoint"
    store,             \* the rows of the result store, output_file
    run,               \* the number of the run of the process
    terminations,      \* how many runs were killed or interrupted
    pc,                \* where the run is
    completed_urls, urls_to_process, i, batch_results, j, all_results,
                       \* the locals of process_url_list
    url, retry_count, result,
                       \* the arguments and the result of scrape_form_fields
    raised,            \* str(e) of the exception on its way to the handler
    loaded_page,       \* the page the browser has loaded
    all_form_elements, \* the elements process_form_elements was given
    processing,        \* the locals of process_form_elements
    processed,         \* how many elements pass 1 is done with
    scrape_calls,      \* the calls of scrape_form_fields by this run's loop
    batch_resets,      \* the calls of reset_browser by this run's loop
    attempts,          \* the outcomes of the navigations of the current call
    resets,            \* the calls of reset_browser within the current call
    cl_guessed_name, cl_element_type, cl_mapped_field, cl_pc,
                       \* the classifier: its arguments, its answer, its state
    sc_elements, sc_field, sc_scores, sc_best, sc_pc,
                       \* the candidate scorer: its arguments, the scores it
                       \* gives the elements, its answer, its state
    lo_page, lo_found, lo_pc,
                       \* the form search: its page, its answer, its state
    gu_element, gu_name, gu_pc
                       \* the hint extraction: its element, its answer, its state

crawl_vars ==
    <<url_list, batch_size, ckpt, store, run, terminations, pc, completed_urls,
      urls_to_process, i, batch_results, j, all_results, url, retry_count,
      result, raised, loaded_page, all_form_elements, processing, processed,
      scrape_calls, batch_resets, attempts, resets>>

cl_vars == <<cl_guessed_name, cl_element_type, cl_mapped_field, cl_pc>>

sc_vars == <<sc_elements, sc_field, sc_scores, sc_best, sc_pc>>

lo_vars == <<lo_page, lo_found, lo_pc>>

gu_vars == <<gu_element, gu_name, gu_pc>>

vars == <<crawl_vars, cl_vars, sc_vars, lo_vars, gu_vars>>

\* scrape_form_fields(self, url, retry_count=0, max_retries=2)
max_retries == 2

NoPage == EmptyPage

\* The locals of a process that has just started.
FreshProcess ==
    /\ completed_urls = {}
    /\ urls_to_process = <<>>
    /\ i = 0
    /\ batch_results = <<>>
    /\ j = 0
    /\ all_results = <<>>
    /\ url = ""
    /\ retry_count = 0
    /\ result = NewResult("")
    /\ raised = None
    /\ loaded_page = NoPage
    /\ all_form_elements = <<>>
    /\ processing = StartProcessing(NewResult(""))
    /\ processed = 0
    /\ scrape_calls = 0
    /\ batch_resets = 0
    /\ attempts = <<>>
    /\ resets = 0

ClassifierIdle ==
    /\ cl_guessed_name = ""
    /\ cl_element_type = ""
    /\ cl_mapped_field = None
    /\ cl_pc = "idle"

ScorerIdle ==
    /\ sc_elements = <<>>
    /\ sc_field = ""
    /\ sc_scores = <<>>
    /\ sc_best = <<>>
    /\ sc_pc = "idle"

LocatorIdle ==
    /\ lo_page = NoPage
    /\ lo_found = [main_container |-> NoContainer, elements |-> <<>>]
    /\ lo_pc = "idle"

HintIdle ==
    /\ gu_element = BaseElement
    /\ gu_name = ""
    /\ gu_pc = "idle"

\* The first run: no checkpoint log, no result store.
Init ==
    /\ url_list \in UrlLists
    /\ batch_size \in 1..MaxBatchSize
    /\ ckpt = <<>>
    /\ store = <<>>
    /\ run = 1
    /\ terminations = 0
    /\ pc = "start"
    /\ FreshProcess
    /\ ClassifierIdle
    /\ ScorerIdle
    /\ LocatorIdle
    /\ HintIdle

(***************************************************************************)
(* FormFieldScraper.process_url_list, one action per step of a run.        *)
(***************************************************************************)
cl_idle == UNCHANGED <<cl_vars, sc_vars, lo_vars, gu_vars>>

world_same == UNCHANGED <<url_list, batch_size, run, terminations>>

scrape_same ==
    UNCHANGED <<url, retry_count, result, raised, loaded_page, all_form_elements,
                processing, processed, attempts, resets>>

page_same == UNCHANGED <<loaded_page, all_form_elements, processing, processed>>

loop_same ==
    UNCHANGED <<completed_urls, urls_to_process, i, batch_results, j, all_results,
                scrape_calls, batch_resets>>

\* batch_urls = urls_to_process[i:i+batch_size]
batch_urls ==
    SubSeq(urls_to_process, i + 1,
           IF i + batch_size < Len(urls_to_process) THEN i + batch_size
           ELSE Len(urls_to_process))

\* Lines 331-347: the checkpoint log is read and the list is filtered.
LoadCheckpoint ==
    /\ pc = "start"
    /\ completed_urls' = {Strip(ckpt[k]) : k \in 1..Len(ckpt)}
    /\ urls_to_process' =
           LET Pending(u) == u \notin {Strip(ckpt[k]) : k \in 1..Len(ckpt)}
           IN  SelectSeq(url_list, Pending)
    /\ all_results' = <<>>
    /\ i' = 0
    /\ pc' = "batch"
    /\ UNCHANGED <<ckpt, store, batch_results, j, scrape_calls, batch_resets>>
    /\ world_same /\ scrape_same /\ cl_idle

\* Lines 350-354: the next batch begins.
BeginBatch ==
    /\ pc = "batch"
    /\ i < Len(urls_to_process)
    /\ batch_results' = <<>>
    /\ j' = 0
    /\ pc' = "url"
    /\ UNCHANGED <<ckpt, store, completed_urls, urls_to_process, i, all_results,
                   scrape_calls, batch_resets>>
    /\ world_same /\ scrape_same /\ cl_idle

\* Lines 355-358 and 75-90: scrape_form_fields is called on the next URL of
\* the batch and builds its result; urlparse may raise before the try.
CallScrape ==
    /\ pc = "url"
    /\ j < Len(batch_urls)
    /\ url' = batch_urls[j + 1]
    /\ scrape_calls' = scrape_calls + 1
    /\ retry_count' = 0
    /\ attempts' = <<>>
    /\ resets' = 0
    /\ IF UrlparseRaises(batch_urls[j + 1])
       THEN /\ raised' = "Invalid IPv6 URL"
            /\ pc' = "handler"
            /\ UNCHANGED result
       ELSE /\ raised' = None
            /\ pc' = "attempt"
            /\ result' = NewResult(batch_urls[j + 1])
    /\ UNCHANGED <<ckpt, store, completed_urls, urls_to_process, i, batch_results,
                   j, all_results, batch_resets>>
    /\ world_same /\ page_same /\ cl_idle

(***************************************************************************)
(* FormFieldScraper.scrape_form_fields: one action per outcome of an       *)
(* attempt's navigation, then the steps of process_form_elements.          *)
(***************************************************************************)
\* The retry test with the bound included.
MayRetryOnceMore(count) == count <= max_retries

\* if retry_count < max_retries:
MayRetry(count) == count < max_retries

\* The retry without reset_browser and on the result of the failed attempt.
RetryInPlace ==
    /\ retry_count' = retry_count + 1
    /\ pc' = "attempt"
    /\ UNCHANGED <<resets, result>>

\* Lines 133-134 and 146-147: reset_browser, then the call of
\* scrape_form_fields(url, retry_count+1, max_retries), which builds a new
\* result.
ResetAndRetry ==
    /\ resets' = resets + 1
    /\ retry_count' = retry_count + 1
    /\ result' = NewResult(url)
    /\ pc' = "attempt"

\* What no navigation changes.
navigation_same ==
    /\ UNCHANGED <<ckpt, store, url, raised>>
    /\ world_same /\ loop_same /\ cl_idle

\* Lines 112-123 and 162-175 on the page p, `checked` being the result
\* after the CAPTCHA check: the form search, its two error returns, and the
\* beginning of process_form_elements.
SearchForm(p, checked) ==
    LET located == FormAndElements(p)
    IN  /\ loaded_page' = p
        /\ IF located.main_container.kind = "none"
           THEN /\ result' = [checked EXCEPT !.error = "No form or input fields found"]
                /\ pc' = "record"
                /\ UNCHANGED <<all_form_elements, processing, processed>>
           ELSE IF Len(located.elements) < 2
           THEN /\ result' = [checked EXCEPT !.error = "Not enough form elements found"]
                /\ pc' = "record"
                /\ UNCHANGED <<all_form_elements, processing, processed>>
           ELSE /\ result' = checked
                /\ all_form_elements' = located.elements
                /\ processing' = StartProcessing(checked)
                /\ processed' = 0
                /\ pc' = "pass1"

\* The page loads and a detected CAPTCHA ends the attempt with an error.
NavigateLoadedStopsAtCaptcha ==
    /\ pc = "attempt"
    /\ attempts' = Append(attempts, "loaded")
    /\ \E p \in PagesOf(url) :
          IF has_captcha(p)
          THEN /\ loaded_page' = p
               /\ result' = [result EXCEPT !.has_captcha = TRUE,
                                           !.error = "CAPTCHA detected"]
               /\ pc' = "record"
               /\ UNCHANGED <<all_form_elements, processing, processed>>
          ELSE SearchForm(p, [result EXCEPT !.has_captcha = has_captcha(p)])
    /\ UNCHANGED <<retry_count, resets>>
    /\ navigation_same

\* Lines 93-120: the page loads, the CAPTCHA check and the form search run.
NavigateLoaded ==
    /\ pc = "attempt"
    /\ attempts' = Append(attempts, "loaded")
    /\ \E p \in PagesOf(url) :
          SearchForm(p, [result EXCEPT !.has_captcha = has_captcha(p)])
    /\ UNCHANGED <<retry_count, resets>>
    /\ navigation_same

\* The wait for the body times out and the attempt goes on without the
\* return of line 100.
NavigateTimeoutGoesOn ==
    /\ pc = "attempt"
    /\ attempts' = Append(attempts, "timeout")
    /\ \E p \in PagesOf(url) :
          SearchForm(p, [result EXCEPT !.error = "Timeout loading page",
                                       !.has_captcha = has_captcha(p)])
    /\ UNCHANGED <<retry_count, resets>>
    /\ navigation_same

\* The timeout handled as a failure of the session is: retried after a reset.
NavigateTimeoutRetries ==
    /\ pc = "attempt"
    /\ attempts' = Append(attempts, "timeout")
    /\ IF MayRetry(retry_count)
       THEN ResetAndRetry
       ELSE /\ result' = [result EXCEPT !.error = "Timeout loading page"]
            /\ pc' = "record"
            /\ UNCHANGED <<retry_count, resets>>
    /\ page_same /\ navigation_same

\* Lines 98-100 and 137-138: the wait for the body times out.
NavigateTimeout ==
    /\ pc = "attempt"
    /\ attempts' = Append(attempts, "timeout")
    /\ result' = [result EXCEPT !.error = "Timeout loading page"]
    /\ pc' = "record"
    /\ UNCHANGED <<retry_count, resets>>
    /\ page_same /\ navigation_same

\* Lines 129-136: the browser session is invalid.
NavigateInvalidSession ==
    /\ pc = "attempt"
    /\ attempts' = Append(attempts, "session")
    /\ IF MayRetry(retry_count)
       THEN ResetAndRetry
       ELSE /\ result' = [result EXCEPT !.error =
                   "Invalid session ID after " \o ToString(max_retries) \o " retries"]
            /\ pc' = "record"
            /\ UNCHANGED <<retry_count, resets>>
    /\ page_same /\ navigation_same

\* Lines 139-147: any other exception; one whose message names the session
\* or the browser is retried.
NavigateException ==
    /\ pc = "attempt"
    /\ \E message \in NavigationErrors :
          /\ attempts' = Append(attempts, "exception")
          /\ IF /\ \/ Contains(Lower(message), "session")
                   \/ Contains(Lower(message), "browser")
                /\ MayRetry(retry_count)
             THEN ResetAndRetry
             ELSE /\ result' = [result EXCEPT !.error = message]
                  /\ pc' = "record"
                  /\ UNCHANGED <<retry_count, resets>>
    /\ page_same /\ navigation_same

\* Lines 176-239: the body of the pass-1 loop, for the next element.
ProcessNextElement ==
    /\ pc = "pass1"
    /\ processed < Len(all_form_elements)
    /\ LET next == ProcessElement(processing, all_form_elements[processed + 1])
       IN  processing' = next /\ result' = next.result
    /\ processed' = processed + 1
    /\ UNCHANGED <<pc, loaded_page, all_form_elements, retry_count, attempts,
                   resets>>
    /\ navigation_same

\* Lines 241-288 and 125-127: the fallbacks, the submit discovery and pass 2,
\* then the flag of the additional fields.
FinishProcessing ==
    /\ pc = "pass1"
    /\ processed = Len(all_form_elements)
    /\ LET done == AfterPass1(processing, all_form_elements, loaded_page)
       IN  /\ processing' = done
           /\ result' = [done.result EXCEPT !.has_additional_required_fields =
                            @ \/ Len(done.result.additional_fields) > 0]
    /\ pc' = "record"
    /\ UNCHANGED <<processed, loaded_page, all_form_elements, retry_count, attempts,
                   resets>>
    /\ navigation_same

(***************************************************************************)
(* process_url_list, continued: what follows the call of                   *)
(* scrape_form_fields.                                                     *)
(***************************************************************************)
\* The checkpoint log opened for writing instead of appending.
RecordOverwrites ==
    /\ pc = "record"
    /\ batch_results' = Append(batch_results, result)
    /\ ckpt' = <<url>>
    /\ j' = j + 1
    /\ pc' = "url"
    /\ UNCHANGED <<store, completed_urls, urls_to_process, i, all_results,
                   scrape_calls, batch_resets>>
    /\ world_same /\ scrape_same /\ cl_idle

\* Lines 358-366: scrape_form_fields returns; its result joins the batch and
\* the URL is appended to the checkpoint log.
Record ==
    /\ pc = "record"
    /\ batch_results' = Append(batch_results, result)
    /\ ckpt' = Append(ckpt, url)
    /\ j' = j + 1
    /\ pc' = "url"
    /\ UNCHANGED <<store, completed_urls, urls_to_process, i, all_results,
                   scrape_calls, batch_resets>>
    /\ world_same /\ scrape_same /\ cl_idle

\* url.startswith('http')
StartsWithHttp(u) == Len(u) >= 4 /\ SubSeq(u, 1, 4) = "http"

\* Lines 374-383: the result the handler records.
error_result(u, message) ==
    [url |-> u,
     domain |-> IF StartsWithHttp(u) THEN Netloc(u) ELSE "",
     fields |-> [f \in StandardFieldSet |-> EmptyMatch],
     additional_fields |-> <<>>,
     has_captcha |-> FALSE,
     has_additional_required_fields |-> FALSE,
     error |-> message]

\* Lines 370-384: the handler of the loop.  It parses the URL again when it
\* starts with "http"; the ValueError of that call leaves process_url_list
\* and reaches run_scraper's handler (lines 70-72), which exits.
HandleUnrecoverable ==
    /\ pc = "handler"
    /\ IF StartsWithHttp(url) /\ UrlparseRaises(url)
       THEN /\ pc' = "aborted"
            /\ UNCHANGED <<batch_results, j>>
       ELSE /\ batch_results' = Append(batch_results, error_result(url, raised))
            /\ j' = j + 1
            /\ pc' = "url"
    /\ UNCHANGED <<ckpt, store, completed_urls, urls_to_process, i, all_results,
                   scrape_calls, batch_resets>>
    /\ world_same /\ scrape_same /\ cl_idle

\* The end of a batch with the reset of lines 394-395 out of its condition.
EndBatchAlwaysResets ==
    /\ pc = "url"
    /\ j = Len(batch_urls)
    /\ all_results' = all_results \o batch_results
    /\ store' = save_results_to_csv(all_results \o batch_results)
    /\ batch_resets' = batch_resets + 1
    /\ i' = i + batch_size
    /\ pc' = "batch"
    /\ UNCHANGED <<ckpt, completed_urls, urls_to_process, batch_results, j, scrape_calls>>
    /\ world_same /\ scrape_same /\ cl_idle

\* Lines 386-395: the batch is over; every result so far is saved, and the
\* browser is reset if URLs are left for another batch.
EndBatch ==
    /\ pc = "url"
    /\ j = Len(batch_urls)
    /\ all_results' = all_results \o batch_results
    /\ store' = save_results_to_csv(all_results \o batch_results)
    /\ batch_resets' = IF i + batch_size < Len(urls_to_process)
                       THEN batch_resets + 1
                       ELSE batch_resets
    /\ i' = i + batch_size
    /\ pc' = "batch"
    /\ UNCHANGED <<ckpt, completed_urls, urls_to_process, batch_results, j, scrape_calls>>
    /\ world_same /\ scrape_same /\ cl_idle

\* Lines 397-401: the final save and the return of all_results.
FinalSave ==
    /\ pc = "batch"
    /\ i >= Len(urls_to_process)
    /\ store' = save_results_to_csv(all_results)
    /\ pc' = "done"
    /\ UNCHANGED ckpt
    /\ world_same /\ loop_same /\ scrape_same /\ cl_idle

(***************************************************************************)
(* The process: its termination and its restart.                           *)
(***************************************************************************)
Running == {"start", "batch", "url", "attempt", "pass1", "record", "handler"}

Stopped == {"done", "aborted", "killed", "interrupted"}

\* The process is killed, or the user interrupts it: KeyboardInterrupt is
\* not an Exception, so no handler of form_scraper.py catches it, and
\* run_scraper's (lines 68-69) prints a message and lets the process end.
Terminate ==
    /\ pc \in Running
    /\ terminations < MaxTerminations
    /\ terminations' = terminations + 1
    /\ pc' \in {"killed", "interrupted"}
    /\ UNCHANGED <<url_list, batch_size, run, ckpt, store>>
    /\ loop_same /\ scrape_same /\ cl_idle

\* run_scraper is started again on the same URL file and output file.
Restart ==
    /\ pc \in Stopped
    /\ run < MaxRuns
    /\ run' = run + 1
    /\ pc' = "start"
    /\ completed_urls' = {}
    /\ urls_to_process' = <<>>
    /\ i' = 0
    /\ batch_results' = <<>>
    /\ j' = 0
    /\ all_results' = <<>>
    /\ url' = ""
    /\ retry_count' = 0
    /\ result' = NewResult("")
    /\ raised' = None
    /\ loaded_page' = NoPage
    /\ all_form_elements' = <<>>
    /\ processing' = StartProcessing(NewResult(""))
    /\ processed' = 0
    /\ scrape_calls' = 0
    /\ batch_resets' = 0
    /\ attempts' = <<>>
    /\ resets' = 0
    /\ UNCHANGED <<url_list, batch_size, terminations, ckpt, store>>
    /\ cl_idle

Next ==
    \/ LoadCheckpoint
    \/ BeginBatch
    \/ CallScrape
    \/ NavigateLoaded
    \/ NavigateTimeout
    \/ NavigateInvalidSession
    \/ NavigateException
    \/ ProcessNextElement
    \/ FinishProcessing
    \/ Record
    \/ HandleUnrecoverable
    \/ EndBatch
    \/ FinalSave
    \/ Terminate
    \/ Restart

Spec == Init /\ [][Next]_vars

(***************************************************************************)
(* The classifier on its own: map_to_standard_field on a hint and a type.  *)
(***************************************************************************)
CrawlIdle ==
    /\ url_list = <<>>
    /\ batch_size = 1
    /\ ckpt = <<>>
    /\ store = <<>>
    /\ run = 1
    /\ terminations = 0
    /\ pc = "idle"
    /\ FreshProcess

InitClassify ==
    /\ cl_guessed_name \in Hints
    /\ cl_element_type \in ElementTypes
    /\ cl_mapped_field = None
    /\ cl_pc = "ready"
    /\ CrawlIdle
    /\ ScorerIdle
    /\ LocatorIdle
    /\ HintIdle

\* mapped_field = self.field_detector.map_to_standard_field(guessed_name, element_type)
Classify ==
    /\ cl_pc = "ready"
    /\ cl_mapped_field' = map_to_standard_field(cl_guessed_name, cl_element_type)
    /\ cl_pc' = "classified"
    /\ UNCHANGED <<cl_guessed_name, cl_element_type, crawl_vars, sc_vars, lo_vars, gu_vars>>

NextClassify == Classify

SpecClassify == InitClassify /\ [][NextClassify]_vars

(***************************************************************************)
(* The candidate scorer on its own: find_best_candidate_for_field on a     *)
(* list of elements and a field.                                           *)
(***************************************************************************)
InitScore ==
    /\ sc_elements \in ScoredLists
    /\ sc_field \in ScoredFields
    /\ sc_scores = <<>>
    /\ sc_best = <<>>
    /\ sc_pc = "ready"
    /\ CrawlIdle
    /\ ClassifierIdle
    /\ LocatorIdle
    /\ HintIdle

\* candidate = self.form_analyzer.find_best_candidate_for_field(
\*     elements, field_name, self.field_detector)
Score ==
    /\ sc_pc = "ready"
    /\ sc_scores' = CandidateScores(sc_elements, sc_field, "late", Len(sc_elements))
    /\ sc_best' = find_best_candidate_for_field(sc_elements, sc_field, "late")
    /\ sc_pc' = "scored"
    /\ UNCHANGED <<sc_elements, sc_field, crawl_vars, cl_vars, lo_vars, gu_vars>>

NextScore == Score

SpecScore == InitScore /\ [][NextScore]_vars

(***************************************************************************)
(* The form search on its own: find_form_and_elements on a page.           *)
(***************************************************************************)
InitLocate ==
    /\ lo_page \in LocatedPages
    /\ lo_found = [main_container |-> NoContainer, elements |-> <<>>]
    /\ lo_pc = "ready"
    /\ CrawlIdle
    /\ ClassifierIdle
    /\ ScorerIdle
    /\ HintIdle

\* main_container, all_form_elements = self.form_analyzer.find_form_and_elements()
Locate ==
    /\ lo_pc = "ready"
    /\ lo_found' = find_form_and_elements(lo_page)
    /\ lo_pc' = "located"
    /\ UNCHANGED <<lo_page, crawl_vars, cl_vars, sc_vars, gu_vars>>

NextLocate == Locate

SpecLocate == InitLocate /\ [][NextLocate]_vars

(***************************************************************************)
(* The hint extraction on its own: guess_field_name on an element.         *)
(***************************************************************************)
InitGuess ==
    /\ gu_element \in HintedElements
    /\ gu_name = ""
    /\ gu_pc = "ready"
    /\ CrawlIdle
    /\ ClassifierIdle
    /\ ScorerIdle
    /\ LocatorIdle

\* guessed_name = self.field_detector.guess_field_name(element, self.driver)
Guess ==
    /\ gu_pc = "ready"
    /\ gu_name' = guess_field_name(gu_element)
    /\ gu_pc' = "guessed"
    /\ UNCHANGED <<gu_element, crawl_vars, cl_vars, sc_vars, lo_vars>>

NextGuess == Guess

SpecGuess == InitGuess /\ [][NextGuess]_vars

(***************************************************************************)
(* The properties of the crawl.                                            *)
(***************************************************************************)
\* The elements of a tuple.
Range(seq) == {seq[k] : k \in 1..Len(seq)}

\* The URLs of the rows of the result store, in the order of the rows.
StoreUrls == [k \in 1..Len(store) |-> store[k].url]

\* The lines this run has appended to the checkpoint log: no URL is logged
\* twice, so they are the lines that were not there when the run read it.
NewCheckpointLines == {k \in 1..Len(ckpt) : ckpt[k] \notin completed_urls}

\* The last navigation of the current call loaded a page.
LastLoaded == attempts # <<>> /\ attempts[Len(attempts)] = "loaded"

\* C1: a run that finds the first K of the N URLs of its list in the
\* checkpoint log calls scrape_form_fields exactly N-K times and appends
\* exactly N-K lines to the checkpoint log.
C1_CheckpointResume ==
    pc = "done" =>
        \A K \in 0..Len(url_list) :
            completed_urls = {url_list[k] : k \in 1..K} =>
                /\ scrape_calls = Len(url_list) - K
                /\ Cardinality(NewCheckpointLines) = Len(url_list) - K

\* C2: when the rerun of a terminated run finishes, the result store holds a
\* row for every URL of the list.
C2_CrashSafeResume ==
    (pc = "done" /\ run > 1 /\ terminations > 0) =>
        \A u \in Range(url_list) : u \in Range(StoreUrls)

\* Every navigation of the current call found the session invalid.
AllSessionInvalid ==
    attempts # <<>> /\ \A k \in 1..Len(attempts) : attempts[k] = "session"

\* C3: when every navigation attempt for a URL raises the session-invalid
\* exception, scrape_form_fields resets the session exactly max_retries = 2
\* times, makes 3 attempts, and returns the error
\* "Invalid session ID after 2 retries".
C3_SessionRetries ==
    (pc = "record" /\ AllSessionInvalid) =>
        /\ resets = 2
        /\ resets = max_retries
        /\ Len(attempts) = max_retries + 1
        /\ result.error = "Invalid session ID after 2 retries"

C3_Witness ==
    /\ pc = "record"
    /\ AllSessionInvalid
    /\ resets = 2
    /\ result.error = "Invalid session ID after 2 retries"

\* C4: before the next URL is started, every URL of the batch whose
\* processing completed, with a result of scrape_form_fields or with the
\* handler's error result, has exactly one line in the checkpoint log.
C4_CheckpointEveryCompletion ==
    pc = "url" =>
        \A k \in 1..Len(batch_results) :
            Cardinality({m \in 1..Len(ckpt) : ckpt[m] = batch_results[k].url}) = 1

\* The run stopped, or is, inside the processing of a URL of its batch:
\* the call of scrape_form_fields on batch_urls[j] has been made and its
\* result has not joined the batch.
UrlInProcess == j < Len(batch_urls) /\ url = batch_urls[j + 1]

\* C5: when the user interrupts the run while a URL is being processed, the
\* results of the URLs completed so far, those of the unfinished batch
\* included, are in the result store when the process exits.
C5_InterruptFlushes ==
    (pc = "interrupted" /\ UrlInProcess) =>
        \A k \in 1..Len(batch_results) :
            \E m \in 1..Len(store) : store[m] = CsvRow(batch_results[k])

\* C6: a run that ends on its own has persisted exactly one result for
\* every URL of the list that was not in the checkpoint log, in the order of
\* the list, whatever failed on any of them.
C6_FailureIsolation ==
    pc \in {"done", "aborted"} =>
        /\ StoreUrls = urls_to_process
        /\ [k \in 1..Len(all_results) |-> all_results[k].url] = urls_to_process

\* The results the run holds: the one being built, the ones of the batch,
\* and the ones of the batches before.
HeldResults ==
    {result, processing.result} \cup Range(batch_results) \cup Range(all_results)

\* C7: every page result, at every point of processing and on every return
\* path, maps each of the 15 canonical fields to exactly one field match: no
\* key is missing and none is added.
C7_OneMatchPerField ==
    /\ Len(standard_fields) = 15
    /\ Cardinality(StandardFieldSet) = 15
    /\ \A res \in HeldResults :
          /\ DOMAIN res.fields = StandardFieldSet
          /\ \A f \in DOMAIN res.fields :
                DOMAIN res.fields[f] = {"xpath", "type", "required", "found"}

C7_Witness ==
    /\ pc = "record"
    /\ result.fields["Email"].found
    /\ result.fields["Submit"].found
    /\ \E k \in 1..Len(batch_results) : batch_results[k].error # None

\* No field of the result was found and no additional field was filed.
NothingClassified(res) ==
    /\ \A f \in DOMAIN res.fields : ~res.fields[f].found
    /\ res.additional_fields = <<>>

\* C8: a page result whose error is set has none of the 15 fields found and
\* no additional field, and a page with no form and no input yields the
\* error "No form or input fields found".
C8_ErrorMeansNothingClassified ==
    /\ \A res \in HeldResults : res.error # None => NothingClassified(res)
    /\ (/\ pc = "record"
        /\ LastLoaded
        /\ Len(loaded_page.forms) = 0
        /\ Len(loaded_page.loose) = 0)
           => result.error = "No form or input fields found"

C8_Witness ==
    /\ pc = "url"
    /\ \E k \in 1..Len(batch_results) :
          batch_results[k].error = "No form or input fields found"
    /\ \E k \in 1..Len(batch_results) :
          batch_results[k].error = "Timeout loading page"

\* What a call of scrape_form_fields on u returns when the page p loads with
\* the outcome c of the CAPTCHA detection, for every page of the sites.
ScrapedWith ==
    UNION {{[on |-> <<u, p, c>>,
             returned |-> ScrapeLoadedPage(NewResult(u), [p EXCEPT !.captcha = c])] :
                p \in PagesOf(u), c \in CaptchaOutcomes} : u \in {ShopUrl, BlankUrl}}

\* C9: the result of a call on a loaded page is, but for has_captcha, the
\* result of the call on the same page with any other outcome of the CAPTCHA
\* detection; has_captcha is set by an indicator alone, not by a failure of
\* the detection.
C9_CaptchaIsAdvisory ==
    (pc = "record" /\ LastLoaded) =>
        /\ \A c \in CaptchaOutcomes :
              \E s \in ScrapedWith :
                 /\ s.on = <<url, loaded_page, c>>
                 /\ result = [s.returned EXCEPT !.has_captcha = result.has_captcha]
        /\ result.has_captcha => loaded_page.captcha = "indicator"
        /\ (loaded_page.captcha = "indicator" /\ ~loaded_page.broken)
              => result.has_captcha

C9_Witness ==
    /\ pc = "record"
    /\ LastLoaded
    /\ loaded_page.captcha = "indicator"
    /\ result.has_captcha
    /\ result.fields["FirstName"].found
    /\ result.fields["Email"].found
    /\ result.error = None

(***************************************************************************)
(* The properties of the classifier.                                       *)
(***************************************************************************)
\* The lower-cased hint holds one of the declared patterns of the k-th field
\* of the pattern table.
HoldsPatternOf(k) ==
    \E m \in 1..Len(field_patterns[k].patterns) :
        Contains(Lower(cl_guessed_name), field_patterns[k].patterns[m])

\* The hint is classified to the first field, in the order of declaration,
\* one of whose patterns it holds.
FirstDeclaredWins ==
    \A k \in 1..Len(field_patterns) :
        (HoldsPatternOf(k) /\ \A m \in 1..(k - 1) : ~HoldsPatternOf(m))
            => cl_mapped_field = field_patterns[k].field

\* A rule that map_to_standard_field tries before the pattern table applies:
\* the consent rule of checkboxes and radios, an address-type indicator, the
\* types email and tel, or a submit term on a submit or a button.
EarlierRuleApplies ==
    \/ /\ cl_element_type \in {"checkbox", "radio"}
       /\ \/ AnyIn(PatternsOf("Privacy"), Lower(cl_guessed_name))
          \/ AnyIn(privacy_indicators, Lower(cl_guessed_name))
    \/ \E k \in 1..Len(address_type_indicators) :
          AnyIn(address_type_indicators[k].patterns, Lower(cl_guessed_name))
    \/ cl_element_type \in {"email", "tel"}
    \/ /\ cl_element_type \in {"submit", "button"}
       /\ AnyIn(submit_terms, Lower(cl_guessed_name))

\* C10, as stated: a hint that holds a declared pattern of the field F is
\* classified to F, and never to a field declared after F.
C10_DeclarationOrder == cl_pc = "classified" => FirstDeclaredWins

\* C10, amended: when none of the rules tried before the pattern table
\* applies, a hint that holds a declared pattern of the field F and none of
\* a field declared before F is classified to F.
C10_DeclarationOrderOfTable ==
    (cl_pc = "classified" /\ ~EarlierRuleApplies) => FirstDeclaredWins

C10_Witness ==
    /\ cl_pc = "classified"
    /\ cl_guessed_name = "job title"
    /\ cl_element_type = "text"
    /\ ~EarlierRuleApplies
    /\ HoldsPatternOf(1)
    /\ HoldsPatternOf(6)
    /\ cl_mapped_field = "Title"

\* The lower-cased hint holds a term of the consent rule: a pattern of the
\* Privacy entry of the pattern table or a consent indicator.
HoldsConsentTerm ==
    \/ \E k \in 1..Len(PatternsOf("Privacy")) :
          Contains(Lower(cl_guessed_name), PatternsOf("Privacy")[k])
    \/ \E k \in 1..Len(privacy_indicators) :
          Contains(Lower(cl_guessed_name), privacy_indicators[k])

\* C11: on a checkbox or a radio, a hint that holds a privacy, consent or
\* subscription term is classified Privacy, whatever else the hint holds.
C11_ConsentShortCircuits ==
    (/\ cl_pc = "classified"
     /\ cl_element_type \in {"checkbox", "radio"}
     /\ HoldsConsentTerm) => cl_mapped_field = "Privacy"

\* A radio whose hint holds a consent term and a city indicator.
C11_Witness ==
    /\ cl_pc = "classified"
    /\ cl_guessed_name = "agree city"
    /\ cl_element_type = "radio"
    /\ HoldsConsentTerm
    /\ AnyIn(address_type_indicators[2].patterns, Lower(cl_guessed_name))
    /\ cl_mapped_field = "Privacy"

\* scrape_form_fields is returning the result of a page it loaded and ran
\* the field pipeline on.
PageProcessed == pc = "record" /\ LastLoaded /\ result.error = None

\* C17: a query failure on one element affects that element only: no step
\* of the pipeline is skipped for the page, so the submit discovery has run
\* and has claimed a button whenever it finds one on the page.
C17_ElementFailureIsLocal ==
    PageProcessed =>
        /\ ~processing.raised
        /\ find_submit_buttons(AllPageElements(loaded_page), "late") # <<>>
              => result.fields["Submit"].found

\* An element pass 1 classifies and files: visible, not hidden, and no
\* submit, button or image control.
Pass1Classifies(e) ==
    /\ is_element_visible(e, "pass1")
    /\ TypeOrTag(e) \notin {"hidden", "submit", "button", "image"}

\* The element is the source of the match of the field it is classified to.
IsCanonicalMatch(e, res) ==
    /\ MappedField(e) # None
    /\ res.fields[MappedField(e)].found
    /\ res.fields[MappedField(e)].xpath = get_xpath(e, "pass1")

\* The element is filed as exactly one additional field, required when it
\* is classified or is required itself.
IsOneAdditionalField(e, res) ==
    LET entries == {k \in 1..Len(res.additional_fields) :
                       res.additional_fields[k].xpath = get_xpath(e, "pass1")}
    IN  /\ Cardinality(entries) = 1
        /\ \A k \in entries :
              res.additional_fields[k].required
                  = (MappedField(e) # None \/ is_element_required(e, "pass1"))

\* C18: every element pass 1 has classified is the match of a canonical
\* field or exactly one additional field, required as the rule says; none
\* is dropped.
C18_NoElementDropped ==
    pc = "pass1" =>
        \A k \in 1..processed :
            (/\ Pass1Classifies(all_form_elements[k])
             /\ ~IsCanonicalMatch(all_form_elements[k], processing.result))
                => IsOneAdditionalField(all_form_elements[k], processing.result)

\* Every field found in `before` has the same match in `after`, but for a
\* ConfirmEmail that is cleared as its match becomes the Email's.
MatchesKept(before, after) ==
    \A f \in StandardFieldSet :
        before.fields[f].found =>
            \/ after.fields[f] = before.fields[f]
            \/ /\ f = "ConfirmEmail"
               /\ ~before.fields["Email"].found
               /\ after.fields["ConfirmEmail"] = EmptyMatch
               /\ after.fields["Email"] = before.fields["ConfirmEmail"]

\* The steps that follow pass 1 keep the matches, each after the other.
StagesKeepMatches(st, elements, page) ==
    /\ MatchesKept(st.result, PrivacyFallback(st).result)
    /\ MatchesKept(PrivacyFallback(st).result,
                   ThenConfirmEmail(PrivacyFallback(st)).result)
    /\ MatchesKept(ThenConfirmEmail(PrivacyFallback(st)).result,
                   ThenSubmit(ThenConfirmEmail(PrivacyFallback(st)), page).result)
    /\ MatchesKept(ThenSubmit(ThenConfirmEmail(PrivacyFallback(st)), page).result,
                   AfterPass1(st, elements, page).result)

\* C19: while a page is processed, no step changes the match of a field
\* that is found, but for the clearing of a ConfirmEmail promoted to Email.
C19_FoundMatchIsKept ==
    [][pc = "pass1" =>
          /\ MatchesKept(processing.result, processing'.result)
          /\ MatchesKept(processing.result, result')
          /\ processed = Len(all_form_elements)
                => StagesKeepMatches(processing, all_form_elements, loaded_page)]_vars

\* The page with two inputs classified FirstName is processed to its end and
\* FirstName is still the match of the first of them.
C19_Witness ==
    /\ PageProcessed
    /\ loaded_page = ContactPage("none", "no")
    /\ MappedField(NicknameInput) = "FirstName"
    /\ result.fields["FirstName"].found
    /\ result.fields["FirstName"].xpath = get_xpath(FirstNameInput, "pass1")
    /\ result.fields["Submit"].found

\* The elements of the page have XPaths of their own, so that an XPath of
\* the result names one element.
XPathsTellElements(page) ==
    \A a, b \in 1..Len(AllPageElements(page)) :
        a # b => get_xpath(AllPageElements(page)[a], "pass1")
                     # get_xpath(AllPageElements(page)[b], "pass1")

\* C20: in the result of a processed page no element is the source of two
\* canonical fields, and no element filed as an additional field is the
\* source of a canonical field.
C20_OneEntryPerElement ==
    (PageProcessed /\ XPathsTellElements(loaded_page)) =>
        /\ \A f, g \in StandardFieldSet :
              (f # g /\ result.fields[f].found /\ result.fields[g].found)
                  => result.fields[f].xpath # result.fields[g].xpath
        /\ \A k \in 1..Len(result.additional_fields) :
              \A f \in StandardFieldSet :
                  result.fields[f].found
                      => result.fields[f].xpath # result.additional_fields[k].xpath

\* C16: every step leaves the checkpoint log as it is or appends to it the
\* URL whose call has just returned, and a restarted process begins with
\* nothing but the log: no step removes, shortens or rewrites a line.
C16_CheckpointOnlyGrows ==
    [][/\ \/ ckpt' = ckpt
          \/ /\ pc = "record"
             /\ url \in Range(urls_to_process)
             /\ ckpt' = Append(ckpt, url)
       /\ run' # run => FreshProcess']_vars

\* The second run has appended a line after the line of the first run, which
\* was terminated.
C16_Witness ==
    /\ run = 2
    /\ terminations = 1
    /\ pc = "url"
    /\ Len(ckpt) = 2
    /\ ckpt[2] = url
    /\ ckpt[1] # url

(***************************************************************************)
(* The properties of the candidate scorer.                                 *)
(***************************************************************************)
\* The scorer has answered for FirstName and the text input whose one
\* attribute is name="user_first_name" is the k-th element it was given.
ScoredUserFirstName(k) ==
    /\ sc_pc = "scored"
    /\ sc_field = "FirstName"
    /\ k \in 1..Len(sc_elements)
    /\ sc_elements[k] = UserFirstNameInput

\* The name-segment rule fires on the element's name, the element is the
\* candidate returned for FirstName, and pass 1 classifies it FirstName.
UserFirstNameIsFirstName ==
    /\ NameSegment(Lower(UserFirstNameInput.name)) = "first"
    /\ sc_best = <<UserFirstNameInput>>
    /\ MappedField(UserFirstNameInput) = "FirstName"

\* C12, as stated: for FirstName the text input with name="user_first_name"
\* fires the name-segment rule, scores at least 150 and is classified
\* FirstName.
C12_StrictSegmentScore ==
    \A k \in 1..Len(sc_elements) :
        ScoredUserFirstName(k) => (UserFirstNameIsFirstName /\ sc_scores[k] >= 150)

\* C12, amended: the element scores exactly 130, 30 for the pattern "first"
\* in its name and 100 for the name-segment rule, and is classified FirstName.
C12_StrictSegmentScoreIs130 ==
    \A k \in 1..Len(sc_elements) :
        ScoredUserFirstName(k) => (UserFirstNameIsFirstName /\ sc_scores[k] = 130)

\* The element scored second of three.
C12_Witness ==
    /\ ScoredUserFirstName(2)
    /\ Len(sc_elements) = 3
    /\ sc_scores[2] = 130
    /\ sc_best = <<UserFirstNameInput>>

\* A text-typed element one of whose name, id and placeholder holds "name"
\* and neither "first" nor "last".
AmbiguousText(e) ==
    /\ e.type = "text"
    /\ \/ Contains(Lower(e.name), "name")
          /\ ~Contains(Lower(e.name), "first") /\ ~Contains(Lower(e.name), "last")
       \/ Contains(Lower(e.id), "name")
          /\ ~Contains(Lower(e.id), "first") /\ ~Contains(Lower(e.id), "last")
       \/ Contains(Lower(e.placeholder), "name")
          /\ ~Contains(Lower(e.placeholder), "first")
          /\ ~Contains(Lower(e.placeholder), "last")

\* Where the ambiguous name fields stand among the scored elements.
AmbiguousPositions == {k \in 1..Len(sc_elements) : AmbiguousText(sc_elements[k])}

\* The scorer has answered and gave no element a positive score.
ScoredNonePositive ==
    /\ sc_pc = "scored"
    /\ \A k \in 1..Len(sc_scores) : sc_scores[k] = 0

\* C13: when no element scores positive, the scorer returns the first of the
\* ambiguous name fields for FirstName and the second for LastName if there
\* are exactly two of them, and nothing for any other count or field.
C13_PositionalFallback ==
    ScoredNonePositive =>
        IF sc_field \in {"FirstName", "LastName"} /\ Cardinality(AmbiguousPositions) = 2
        THEN \E a, b \in AmbiguousPositions :
                /\ a < b
                /\ sc_elements[a] # sc_elements[b]
                /\ sc_best = IF sc_field = "FirstName" THEN <<sc_elements[a]>>
                                                       ELSE <<sc_elements[b]>>
        ELSE sc_best = <<>>

\* LastName asked of an ambiguous name field, an element that is none and a
\* second ambiguous name field: the third element is returned.
C13_Witness ==
    /\ ScoredNonePositive
    /\ sc_field = "LastName"
    /\ AmbiguousPositions = {1, 3}
    /\ sc_best = <<sc_elements[3]>>

(***************************************************************************)
(* The properties of the form search.                                      *)
(***************************************************************************)
\* How many visible inputs, selects and textareas that are not hidden
\* inputs a form of the page has; a form that is detached from the page has
\* none.
VisibleInputCount(form) ==
    IF form.stale THEN 0
    ELSE Cardinality({k \in 1..Len(form.els) :
                        /\ form.els[k].tag \in {"input", "select", "textarea"}
                        /\ TypeOrTag(form.els[k]) # "hidden"
                        /\ is_element_visible(form.els[k], "locate")})

\* The search has answered for a page one of whose forms has two visible
\* inputs or more.
LocatedAmongEnough ==
    /\ lo_pc = "located"
    /\ \E k \in 1..Len(lo_page.forms) : VisibleInputCount(lo_page.forms[k]) >= 2

\* C14: when a form of the page has two visible inputs or more, the
\* container find_form_and_elements returns is a form with two visible
\* inputs or more.
C14_ContainerHasTwoInputs ==
    LocatedAmongEnough =>
        /\ lo_found.main_container.kind = "form"
        /\ lo_found.main_container.index \in 1..Len(lo_page.forms)
        /\ VisibleInputCount(lo_page.forms[lo_found.main_container.index]) >= 2

\* A login form with one input and the higher score stands before a survey
\* form with two inputs: the survey form is returned.
C14_Witness ==
    /\ LocatedAmongEnough
    /\ Len(lo_page.forms) >= 2
    /\ lo_page.forms[1] = LoginForm
    /\ lo_page.forms[2] = SurveyForm
    /\ FormScore(LoginForm).score > FormScore(SurveyForm).score
    /\ VisibleInputCount(LoginForm) = 1
    /\ lo_found.main_container = [kind |-> "form", index |-> 2]


(***************************************************************************)
(* The properties of the end of the field pipeline.                        *)
(***************************************************************************)
\* The result find_missing_fields holds when it reaches its last statement,
\* the promotion, for the pipeline state `st` at the end of pass 1.
BeforePromotion(st, elements, page) ==
    FindMissingPriorities(
        FindMissingPrivacy(
            ThenSubmit(ThenConfirmEmail(PrivacyFallback(st)), page).result, elements),
        elements, Len(priority_fields))

\* The step that ends the pipeline promotes a ConfirmEmail found without an
\* Email: the Email's match is the ConfirmEmail's and the ConfirmEmail's is
\* empty.
PromotionIsExact ==
    (/\ pc = "pass1"
     /\ pc' = "record"
     /\ ~processing'.raised
     /\ ~BeforePromotion(processing, all_form_elements, loaded_page).fields["Email"].found
     /\ BeforePromotion(processing, all_form_elements,
                        loaded_page).fields["ConfirmEmail"].found)
        => /\ result'.fields["Email"]
                 = BeforePromotion(processing, all_form_elements,
                                   loaded_page).fields["ConfirmEmail"]
           /\ result'.fields["Email"].found
           /\ result'.fields["ConfirmEmail"] = EmptyMatch

\* C21: the result of a processed page never has ConfirmEmail found and
\* Email not found, and a promotion gives Email exactly the match ConfirmEmail
\* had and leaves ConfirmEmail empty.
C21_LoneConfirmEmailIsPromoted ==
    /\ [](PageProcessed =>
             ~(result.fields["ConfirmEmail"].found /\ ~result.fields["Email"].found))
    /\ [][PromotionIsExact]_vars

\* The reminder page: the confirmation input claimed in pass 1 ends as the
\* Email, and ConfirmEmail is empty.
C21_Witness ==
    /\ PageProcessed
    /\ loaded_page = ReminderPage
    /\ MappedField(RepeatEmailInput) = "ConfirmEmail"
    /\ result.fields["Email"]
           = [xpath |-> get_xpath(RepeatEmailInput, "pass1"), type |-> "email",
              required |-> FALSE, found |-> TRUE]
    /\ result.fields["ConfirmEmail"] = EmptyMatch


(***************************************************************************)
(* The properties of the attempts of scrape_form_fields.                   *)
(***************************************************************************)
\* What the attempt that ended the call returns when it is the only attempt
\* of the call: the result of the page it loaded, or the new result with the
\* error of its failure.
ResultOfLastAttemptAlone ==
    CASE attempts[Len(attempts)] = "loaded" ->
            \E s \in ScrapedWith :
                /\ s.on = <<url, loaded_page, loaded_page.captcha>>
                /\ result = s.returned
      [] attempts[Len(attempts)] = "timeout" ->
            result = [NewResult(url) EXCEPT !.error = "Timeout loading page"]
      [] attempts[Len(attempts)] = "session" ->
            result = [NewResult(url) EXCEPT
                         !.error = "Invalid session ID after 2 retries"]
      [] OTHER ->
            \E message \in NavigationErrors :
                result = [NewResult(url) EXCEPT !.error = message]

\* C22: every attempt begins with a new, empty result and, when it is a
\* retry, after one reset of the session per failed attempt; the result
\* returned is the result of the last attempt alone.
C22_RetryStartsFromScratch ==
    /\ pc = "attempt" =>
          /\ result = NewResult(url)
          /\ NothingClassified(result)
          /\ resets = Len(attempts)
          /\ retry_count = Len(attempts)
    /\ (pc = "record" /\ attempts # <<>>) => ResultOfLastAttemptAlone

\* The third attempt, after two failures of the session, loaded the contact
\* page and returns its fields.
C22_Witness ==
    /\ pc = "record"
    /\ attempts = <<"session", "exception", "loaded">>
    /\ resets = 2
    /\ result.error = None
    /\ result.fields["Email"].found
    /\ ResultOfLastAttemptAlone


\* The last attempt of the call failed on the session: the session-invalid
\* exception, or another exception whose message names the session or the
\* browser.
LastWasSessionFailure ==
    /\ attempts # <<>>
    /\ \/ attempts[Len(attempts)] = "session"
       \/ /\ attempts[Len(attempts)] = "exception"
          /\ \/ Contains(Lower(result.error), "session")
             \/ Contains(Lower(result.error), "browser")

\* The bounds of the retries of one call.
RetriesBounded ==
    /\ resets <= max_retries
    /\ retry_count <= max_retries
    /\ Len(attempts) <= max_retries + 1
    /\ (pc = "record" /\ LastWasSessionFailure) => retry_count = max_retries
    /\ \A k \in 1..Len(attempts) :
          attempts[k] = "timeout" => (k = Len(attempts) /\ pc \notin {"attempt", "pass1"})
    /\ \A k \in 1..(Len(attempts) - 1) : attempts[k] \in {"session", "exception"}

\* A step that leaves the call running brings it nearer to its return: it
\* uses up one of the max_retries retries, or goes from the navigation on to
\* the elements, or takes one more of the elements that are left.
CallAdvances ==
    (pc \in {"attempt", "pass1"} /\ pc' \in {"attempt", "pass1"}) =>
        \/ /\ retry_count' = retry_count + 1
           /\ retry_count' <= max_retries
        \/ /\ retry_count' = retry_count
           /\ pc = "attempt" /\ pc' = "pass1"
           /\ processed' <= Len(all_form_elements')
        \/ /\ retry_count' = retry_count
           /\ pc = "pass1" /\ pc' = "pass1"
           /\ all_form_elements' = all_form_elements
           /\ processed' = processed + 1
           /\ processed' <= Len(all_form_elements)

\* C23: a call of scrape_form_fields makes at most max_retries resets and
\* max_retries + 1 attempts, returns the error of a session failure only when
\* the retries are used up, never retries a timeout, and cannot run for ever:
\* each of its steps uses up a retry or an element, and both are bounded.
C23_AttemptsBoundedAndEnd ==
    /\ []RetriesBounded
    /\ [][CallAdvances]_vars

\* The call returns the error of a browser failure after two resets, the
\* first after a failure of the session.
C23_Witness ==
    /\ pc = "record"
    /\ attempts = <<"session", "exception", "exception">>
    /\ resets = max_retries
    /\ result.error = "Browser window was closed"


(***************************************************************************)
(* The properties of the resets of process_url_list.                       *)
(***************************************************************************)
\* ceil(n / b)
CeilDiv(n, b) == (n + b - 1) \div b

\* The loop resets the browser only at the end of a batch that is not the
\* last, after the save of the results up to that batch.
BatchResetFollowsSave ==
    (batch_resets' # batch_resets /\ pc' # "start") =>
        /\ pc = "url" /\ j = Len(batch_urls)
        /\ batch_resets' = batch_resets + 1
        /\ all_results' = all_results \o batch_results
        /\ store' = save_results_to_csv(all_results')
        /\ i' < Len(urls_to_process)
        /\ resets' = resets

\* A call resets the browser only for the retry after a failure of the
\* session.
CallResetFollowsSessionFailure ==
    (resets' # resets /\ resets' # 0) =>
        /\ pc = "attempt" /\ pc' = "attempt"
        /\ resets' = resets + 1
        /\ attempts'[Len(attempts')] \in {"session", "exception"}
        /\ batch_resets' = batch_resets

\* The resets of the loop while a run is at work: one for each batch before
\* the current one.
ResetsSoFar ==
    (pc \in {"batch", "url", "attempt", "pass1", "record", "handler"}
        /\ i < Len(urls_to_process))
    => batch_resets = i \div batch_size

\* The resets of the loop of a finished run over n URLs with the batch
\* size b: none when n <= b, ceil(n / b) - 1 when there is a URL at all.
ResetsOfFinishedRun ==
    pc = "done" =>
        /\ Len(urls_to_process) <= batch_size => batch_resets = 0
        /\ Len(urls_to_process) >= 1 =>
              batch_resets = CeilDiv(Len(urls_to_process), batch_size) - 1

\* C24: a finished run over n URLs to process with the batch size b has reset
\* the browser ceil(n / b) - 1 times between its batches, not at all when
\* n <= b; each of these resets follows the save of a batch that is not the
\* last, and inside a batch only the retry after a failure of the session
\* resets the browser.
C24_OneResetBetweenBatches ==
    /\ []ResetsOfFinishedRun
    /\ []ResetsSoFar
    /\ [][BatchResetFollowsSave]_vars
    /\ [][CallResetFollowsSessionFailure]_vars

\* A run over two pending URLs in batches of one is done after one reset
\* between its two batches.
C24_Witness ==
    /\ pc = "done"
    /\ Len(urls_to_process) = 2
    /\ batch_size = 1
    /\ batch_resets = 1


(***************************************************************************)
(* The properties of the last rule of map_to_standard_field.               *)
(***************************************************************************)
\* One of the six rules fires on the hint and the type the classifier was
\* given: the consent term of a checkbox or radio, the address indicator,
\* the email type, the tel type, the action verb of a submit or button, the
\* generic table.
OneOfSixRulesFires ==
    LET name == Lower(cl_guessed_name)
    IN  \/ /\ cl_element_type \in {"checkbox", "radio"}
           /\ \/ AnyIn(PatternsOf("Privacy"), name)
              \/ AnyIn(privacy_indicators, name)
        \/ \E k \in 1..Len(address_type_indicators) :
              AnyIn(address_type_indicators[k].patterns, name)
        \/ cl_element_type = "email"
        \/ cl_element_type = "tel"
        \/ /\ cl_element_type \in {"submit", "button"}
           /\ AnyIn(submit_terms, name)
        \/ \E k \in 1..Len(field_patterns) :
              \E n \in 1..Len(field_patterns[k].patterns) :
                 \/ WordSearch(field_patterns[k].patterns[n], name)
                 \/ Contains(name, field_patterns[k].patterns[n])

\* C25 as stated: a hint and a type on which none of the six rules fires
\* get no canonical field.
C25_SixRulesOnly ==
    (cl_pc = "classified" /\ ~OneOfSixRulesFires) => cl_mapped_field = None

\* C25: a hint and a type on which none of the six rules fires get Street
\* when the hint holds "line1" or "thoroughfare", else Country when it holds
\* "countries", and no canonical field otherwise: these are the words of the
\* table of lines 268-274 that no earlier rule catches.
C25_SeventhRuleOnly ==
    (cl_pc = "classified" /\ ~OneOfSixRulesFires) =>
        LET name == Lower(cl_guessed_name)
        IN  cl_mapped_field =
                IF Contains(name, "line1") \/ Contains(name, "thoroughfare")
                THEN "Street"
                ELSE IF Contains(name, "countries") THEN "Country"
                ELSE None

\* The text input hinted "line1" is classified Street by the last rule.
C25_Witness ==
    /\ cl_pc = "classified"
    /\ cl_guessed_name = "line1"
    /\ cl_element_type = "text"
    /\ ~OneOfSixRulesFires
    /\ cl_mapped_field = "Street"


(***************************************************************************)
(* The properties of the choice among several forms.                       *)
(***************************************************************************)
\* The score of a form: 10 for each visible input, 20 for each of the six
\* common names found in the name or id of one of its inputs, 30 for a
\* control of the type submit.
ScoreAsStated(form) ==
    10 * VisibleInputCount(form)
    + 20 * Cardinality({w \in {"email", "name", "first", "last", "phone", "address"} :
                          \E k \in 1..Len(form.els) :
                             /\ form.els[k].tag = "input"
                             /\ \/ Contains(Lower(form.els[k].name), w)
                                \/ Contains(Lower(form.els[k].id), w)})
    + (IF \E k \in 1..Len(form.els) :
             /\ form.els[k].tag \in {"input", "button"}
             /\ form.els[k].type = "submit"
       THEN 30 ELSE 0)

\* The forms of the page that are still in the document.
FormsInDocument == {k \in 1..Len(lo_page.forms) : ~lo_page.forms[k].stale}

\* The forms the choice is made among: those with two visible inputs or
\* more, or every form when there is none of these.
FormsToChooseAmong ==
    LET enough == {k \in FormsInDocument : VisibleInputCount(lo_page.forms[k]) >= 2}
    IN  IF enough # {} THEN enough ELSE FormsInDocument

\* C26: on a page of several forms the container find_form_and_elements
\* returns is the form of the highest score among those with two visible
\* inputs or more, among all forms when none has two, and the first of the
\* page among the forms of that score.
C26_HighestScoreFirstInDocument ==
    (lo_pc = "located" /\ Len(lo_page.forms) >= 2 /\ FormsToChooseAmong # {}) =>
        /\ lo_found.main_container.kind = "form"
        /\ lo_found.main_container.index \in FormsToChooseAmong
        /\ \A k \in FormsToChooseAmong :
              LET chosen == lo_found.main_container.index
              IN  \/ ScoreAsStated(lo_page.forms[chosen]) > ScoreAsStated(lo_page.forms[k])
                  \/ /\ ScoreAsStated(lo_page.forms[chosen]) = ScoreAsStated(lo_page.forms[k])
                     /\ chosen <= k

\* The poll form and the survey form have two inputs each and the same
\* score, the login form before them has the highest score and one input:
\* the poll form, the first of the two, is returned.
C26_Witness ==
    /\ lo_pc = "located"
    /\ lo_page.forms = <<LoginForm, PollForm, SurveyForm>>
    /\ ScoreAsStated(PollForm) = ScoreAsStated(SurveyForm)
    /\ ScoreAsStated(LoginForm) > ScoreAsStated(PollForm)
    /\ lo_found.main_container = [kind |-> "form", index |-> 2]


(***************************************************************************)
(* The properties of the element list of find_form_and_elements.           *)
(***************************************************************************)
\* The element is one the collection takes: visible, and an input that is
\* not hidden, a select, a textarea, a button, or a div or span in the role
\* of a button.
IsCollected(e) ==
    /\ is_element_visible(e, "locate")
    /\ \/ e.tag = "input" /\ e.type # "hidden"
       \/ e.tag \in {"select", "textarea", "button"}
       \/ e.tag \in {"div", "span"} /\ e.role = "button"

\* The elements the collection takes from the k-th form of the page; none
\* from a form that is detached.
TakenFromForm(k) ==
    IF lo_page.forms[k].stale THEN {}
    ELSE {lo_page.forms[k].els[n] : n \in {m \in 1..Len(lo_page.forms[k].els) :
                                              IsCollected(lo_page.forms[k].els[m])}}

ReturnedElements == {lo_found.elements[k] : k \in 1..Len(lo_found.elements)}

\* The list holds no element twice.
ReturnedOnce ==
    \A a, b \in 1..Len(lo_found.elements) :
        a # b => lo_found.elements[a] # lo_found.elements[b]

\* The list holds an element of a form other than the chosen one only when
\* the chosen form gave fewer than 3 elements.
OtherFormsOnlyBelowThree ==
    LET chosen == lo_found.main_container.index
    IN  (\E k \in 1..Len(lo_page.forms) :
            k # chosen /\ TakenFromForm(k) \cap ReturnedElements # {})
        => Cardinality(TakenFromForm(chosen)) < 3

\* The list holds an element that no form gave only when all the forms
\* together gave fewer than 3 elements.
PageOnlyBelowThree ==
    LET of_forms == UNION {TakenFromForm(k) : k \in 1..Len(lo_page.forms)}
    IN  ReturnedElements \ of_forms # {} => Cardinality(of_forms) < 3

\* C27: the element list find_form_and_elements returns holds no element
\* twice; it holds elements of the other forms only when the chosen form
\* gave fewer than 3, and elements from outside the forms only when the
\* forms together gave fewer than 3.
C27_NoElementTwice ==
    (lo_pc = "located" /\ lo_found.main_container.kind # "none") =>
        /\ ReturnedOnce
        /\ lo_found.main_container.kind = "form" =>
              OtherFormsOnlyBelowThree /\ PageOnlyBelowThree

\* The search box form gives one element, the detached form none: the list
\* is widened to the whole page and holds the box, the inputs that stand
\* where the detached form stood and the input outside the forms, each once.
C27_Witness ==
    /\ lo_pc = "located"
    /\ lo_page.forms = <<SearchBoxForm, DetachedForm>>
    /\ lo_page.loose = <<SearchInput>>
    /\ Len(lo_found.elements) = 4
    /\ ReturnedOnce
    /\ SearchInput \in ReturnedElements


(***************************************************************************)
(* The properties of the candidate the scorer returns.                     *)
(***************************************************************************)
\* Where the elements that are not of the hidden type stand.
NotHiddenPositions ==
    {k \in 1..Len(sc_elements) : TypeOrTag(sc_elements[k]) # "hidden"}

\* The positional fallback has its case: FirstName or LastName is asked and
\* exactly two of the elements are ambiguous name fields.
PositionalCase ==
    sc_field \in {"FirstName", "LastName"} /\ Cardinality(AmbiguousPositions) = 2

\* The first of the elements that are not hidden and have the highest of
\* their scores is the one returned.
BestIsFirstHighest ==
    \E k \in NotHiddenPositions :
        /\ sc_best = <<sc_elements[k]>>
        /\ sc_scores[k] > 0
        /\ \A m \in NotHiddenPositions :
              sc_scores[m] < sc_scores[k] \/ (sc_scores[m] = sc_scores[k] /\ k <= m)

\* C28: the scorer returns the first of the elements with the highest score
\* among those that are not hidden; it never returns a hidden element, and
\* outside the positional fallback it returns no element of a score of 0 or
\* less and nothing when no element scores positive.
C28_BestIsHighestNotHidden ==
    sc_pc = "scored" =>
        /\ (\E k \in NotHiddenPositions : sc_scores[k] > 0) => BestIsFirstHighest
        /\ \A k \in 1..Len(sc_elements) :
              sc_best = <<sc_elements[k]>> =>
                 /\ TypeOrTag(sc_elements[k]) # "hidden"
                 /\ sc_scores[k] > 0 \/ PositionalCase
        /\ ((\A k \in NotHiddenPositions : sc_scores[k] <= 0) /\ ~PositionalCase)
              => sc_best = <<>>

\* Email asked of a hidden input named "email" and two inputs of the type
\* email with the same score: the first of the two is returned.
C28_Witness ==
    /\ sc_pc = "scored"
    /\ sc_field = "Email"
    /\ sc_elements = <<HiddenEmailInput, HomeEmailInput, WorkEmailInput>>
    /\ sc_scores[2] = sc_scores[3]
    /\ sc_scores[2] > 0
    /\ sc_best = <<HomeEmailInput>>


(***************************************************************************)
(* The properties of the hint of guess_field_name.                         *)
(***************************************************************************)
\* C29: the hint guess_field_name returns holds no hyphen and no underscore,
\* whatever source its texts came from.
C29_HintHasNoHyphen ==
    gu_pc = "guessed" =>
        /\ ~Contains(gu_name, "-")
        /\ ~Contains(gu_name, "_")


(***************************************************************************)
(* The properties of the Privacy fallback.                                 *)
(***************************************************************************)
\* Pass 1 is over and lines 241-249 are next.
AtPrivacyFallback == pc = "pass1" /\ processed = Len(all_form_elements)

\* C30: when pass 1 has noted a privacy candidate it has claimed Privacy as
\* well, every candidate being classified Privacy, so the fallback of lines
\* 241-249 leaves the result as it is.
C30_PrivacyFallbackIsIdle ==
    /\ pc = "pass1" =>
          /\ \A k \in 1..Len(processing.privacy_candidates) :
                MappedField(processing.privacy_candidates[k]) = "Privacy"
          /\ Len(processing.privacy_candidates) > 0 =>
                processing.result.fields["Privacy"].found
    /\ AtPrivacyFallback => PrivacyFallback(processing) = processing

\* Pass 1 is over on the contact page: the GDPR checkbox is a candidate and
\* holds Privacy.
C30_Witness ==
    /\ AtPrivacyFallback
    /\ processing.privacy_candidates = <<GdprCheckbox>>
    /\ processing.result.fields["Privacy"].found
    /\ processing.result.fields["Privacy"].xpath = get_xpath(GdprCheckbox, "pass1")

=============================================================================
